---- MODULE Spec2Model ----
(***************************************************************************)
(* A model of xhr-fetcher: the BrowserManager singleton (lazy launch of    *)
(* one shared browser, close, the shutdown signal handlers), fetchPage     *)
(* (one visit: context, page, navigation with the network-idle fallback,   *)
(* selector wait, settle delay, snapshot, release in finally), the         *)
(* request/response observers of a visit, and the HTTP callers that        *)
(* validate a request and hand it to fetchPage.                            *)
(*                                                                         *)
(* Every await of the code is a step boundary: the code up to its next     *)
(* await is one action.  Calls into the browser driver (launch, newContext,*)
(* goto, body, ...) settle by an environment choice among the outcomes the *)
(* driver can produce.                                                     *)
(***************************************************************************)
EXTENDS Integers, Sequences, FiniteSets, TLC

\* ---------------------------------------------------------------- bounds
NumVisits == 1        \* fetchPage calls of one run
MaxCloses == 2        \* close() calls of one run (direct or by a signal)
MaxDom == 1           \* times the page's DOM changes during a visit
MaxRequests == 2      \* request events of a visit
MaxResponses == 1     \* response events of a visit

Visits == 1..NumVisits
\* Each initialize() call launches at most once: the startup call and one
\* call per visit.
Launches == 1..(NumVisits + 1)
Closers == 1..MaxCloses

\* ------------------------------------------------------ program constants
DefaultTimeout == 60000
DefaultNetworkIdleTimeout == 10000
MinTimeout == 1000
MaxTimeout == 360000
MaxAdditionalWaitMs == 60000

\* ------------------------------------------------------------- requests
WaitUntilValues == {"load", "domcontentloaded", "networkidle"}

\* FetchRequest: the validated request fetchPage receives.
FetchRequest(w, t, n, s, a) ==
  [waitUntil |-> w, timeout |-> t, networkIdleTimeout |-> n,
   waitForSelector |-> s, additionalWaitMs |-> a]

NoRequest == FetchRequest("none", 0, 0, FALSE, 0)

\* The requests the visits of the navigation specification are called with:
\* each completion strategy, with the network-idle budget below and above
\* the overall timeout, with and without selector and settle delay.
Requests ==
  {FetchRequest(w, t, DefaultNetworkIdleTimeout, s, a) :
     w \in WaitUntilValues, t \in {DefaultTimeout, MinTimeout},
     s \in BOOLEAN, a \in {0, 500}}

\* The requests of the manager specification, where what matters is the
\* interleaving of calls, not the options of one call.
ManagerRequests ==
  {FetchRequest("networkidle", DefaultTimeout, DefaultNetworkIdleTimeout, FALSE, 0)}

VARIABLES
  browser,      \* BrowserManager.browser: 0 (null) or the launch it came from
  initPromise,  \* BrowserManager.initPromise: 0 (null) or a launch's promise
  launchCount,  \* chromium.launch() calls made so far
  proc,         \* launch -> state of the browser process it started
  promise,      \* launch -> state of the promise of the async launch body
  exited,       \* process.exit was called
  startup,      \* the initialize() call of the app.listen callback
  closer,       \* close() calls
  visit,        \* fetchPage calls
  rec,          \* per visit: what its request/response observers recorded
  http,         \* per visit: the HTTP exchange that called it, if any
  apiKey,       \* process.env.API_KEY as the server read it at startup
  inbound,      \* per visit slot: the HTTP request the middleware was given
  call          \* a call of one of the analysis functions: arguments, result

vars == <<browser, initPromise, launchCount, proc, promise, exited,
          startup, closer, visit, rec, http, apiKey, inbound, call>>

mgrVars == <<browser, initPromise, launchCount, proc, promise>>

\* What the manager, the visits and their observers never touch.
sideVars == <<apiKey, inbound, call>>

\* ------------------------------------------------------------ initialize
\* Which way initialize() goes, from the two fields it tests.
InitializeBranchNoJoin(b, ip) ==
  IF b # 0 THEN "ready" ELSE "launch"

InitializeBranch(b, ip) ==
  IF b # 0 THEN "ready"
  ELSE IF ip # 0 THEN "join"
  ELSE "launch"

\* The promise an initialize() caller awaits: 0 when the call returns at
\* once (the browser exists), the in-flight promise, or the new launch's.
InitializeAwaits ==
  CASE InitializeBranch(browser, initPromise) = "ready" -> 0
    [] InitializeBranch(browser, initPromise) = "join" -> initPromise
    [] OTHER -> launchCount + 1

\* initialize(): its effect on the manager.  The async launch body runs to
\* its first await inside the call, so chromium.launch() has been called
\* and initPromise is set when initialize() returns.
Initialize ==
  IF InitializeBranch(browser, initPromise) = "launch"
  THEN /\ launchCount' = launchCount + 1
       /\ proc' = [proc EXCEPT ![launchCount + 1] = "starting"]
       /\ promise' = [promise EXCEPT ![launchCount + 1] = "pending"]
       /\ initPromise' = launchCount + 1
       /\ UNCHANGED browser
  ELSE UNCHANGED mgrVars

\* The browser process of a launch in flight appears.
LaunchSpawn(l) ==
  /\ ~exited
  /\ proc[l] = "starting"
  /\ proc' = [proc EXCEPT ![l] = "spawned"]
  /\ UNCHANGED <<browser, initPromise, launchCount, promise, exited,
                 startup, closer, visit, rec, http, sideVars>>

\* chromium.launch() resolves: the launch body assigns this.browser and its
\* promise fulfils.
LaunchResolve(l) ==
  /\ ~exited
  /\ proc[l] = "spawned"
  /\ proc' = [proc EXCEPT ![l] = "open"]
  /\ browser' = l
  /\ promise' = [promise EXCEPT ![l] = "fulfilled"]
  /\ UNCHANGED <<initPromise, launchCount, exited, startup, closer, visit,
                 rec, http, sideVars>>

\* chromium.launch() rejects: the launch body throws, its promise rejects
\* and stays in initPromise.
LaunchReject(l) ==
  /\ ~exited
  /\ proc[l] \in {"starting", "spawned"}
  /\ proc' = [proc EXCEPT ![l] = "failed"]
  /\ promise' = [promise EXCEPT ![l] = "rejected"]
  /\ UNCHANGED <<browser, initPromise, launchCount, exited, startup, closer,
                 visit, rec, http, sideVars>>

\* app.listen callback: browserManager.initialize().catch(log).
StartupInitialize ==
  /\ ~exited
  /\ startup.pc = "idle"
  /\ Initialize
  /\ startup' = IF InitializeAwaits = 0
                THEN [pc |-> "done", awaits |-> 0, outcome |-> "fulfilled"]
                ELSE [pc |-> "awaitInit", awaits |-> InitializeAwaits,
                      outcome |-> "none"]
  /\ UNCHANGED <<exited, closer, visit, rec, http, sideVars>>

StartupResume ==
  /\ ~exited
  /\ startup.pc = "awaitInit"
  /\ promise[startup.awaits] \in {"fulfilled", "rejected"}
  /\ startup' = [startup EXCEPT !.pc = "done",
                                !.outcome = promise[startup.awaits]]
  /\ UNCHANGED <<mgrVars, exited, closer, visit, rec, http, sideVars>>

\* ----------------------------------------------------------------- close
\* What close() leaves in the two fields once browser.close() has resolved.
CloseResetKeepsPromise(b, ip) == <<0, ip>>

CloseReset(b, ip) == <<0, 0>>

\* close() calls and signals are taken in order of their slot.
NextCloser(c) == closer[c].pc = "idle" /\ \A d \in Closers : d < c => closer[d].pc # "idle"

\* close(), called directly (signal = FALSE) or by the SIGINT/SIGTERM
\* handler (signal = TRUE), up to its await.  With no browser handle the
\* call returns at once, and the signal handler goes on to process.exit.
CloseCall(c, signal) ==
  /\ ~exited
  /\ NextCloser(c)
  /\ IF browser # 0
     THEN /\ closer' = [closer EXCEPT ![c] =
                          [pc |-> "awaitClose", handle |-> browser, signal |-> signal]]
          /\ proc' = [proc EXCEPT ![browser] =
                        IF @ = "open" THEN "closing" ELSE @]
          /\ UNCHANGED exited
     ELSE /\ closer' = [closer EXCEPT ![c] =
                          [pc |-> "done", handle |-> 0, signal |-> FALSE]]
          /\ exited' = signal
          /\ UNCHANGED proc
  /\ UNCHANGED <<browser, initPromise, launchCount, promise, startup, visit,
                 rec, http, sideVars>>

Close(c) == CloseCall(c, FALSE)

\* process.on('SIGINT' / 'SIGTERM').
Signal(c) == CloseCall(c, TRUE)

\* close() after its await: browser.close() has resolved, so the browser
\* process it was called on has gone; both fields are reset, whatever they
\* hold by now; the signal handler then calls process.exit.
CloseResume(c) ==
  /\ ~exited
  /\ closer[c].pc = "awaitClose"
  /\ proc' = [proc EXCEPT ![closer[c].handle] = "closed"]
  /\ browser' = CloseReset(browser, initPromise)[1]
  /\ initPromise' = CloseReset(browser, initPromise)[2]
  /\ closer' = [closer EXCEPT ![c] =
                  [pc |-> "done", handle |-> 0, signal |-> FALSE]]
  /\ exited' = closer[c].signal
  /\ UNCHANGED <<launchCount, promise, startup, visit, rec, http, sideVars>>

\* --------------------------------------------------- request/response observers
\* url + method, the key of xhrMap.  "top" is request.url, the page visited.
Key(url, method) == [url |-> url, method |-> method]

\* The requests a page makes: url, method and resource kind.  The observer
\* of requests tests the kind for xhr and fetch; "image" stands for every
\* other kind.
RequestShapes ==
  {[key |-> Key("api", "GET"), kind |-> "xhr"],
   [key |-> Key("api", "POST"), kind |-> "xhr"],
   [key |-> Key("api", "GET"), kind |-> "fetch"],
   [key |-> Key("api", "GET"), kind |-> "image"]}

\* The responses a page receives: url, method and kind of their request,
\* and whether the content type is text-like (json, text, javascript, xml,
\* html).  The observer of responses tests the kind for xhr, fetch, script,
\* stylesheet and document, and a document's url against request.url.
ResponseShapes ==
  {[key |-> Key("api", "GET"), kind |-> "xhr", textual |-> TRUE],
   [key |-> Key("api", "GET"), kind |-> "xhr", textual |-> FALSE],
   [key |-> Key("api", "POST"), kind |-> "xhr", textual |-> TRUE],
   [key |-> Key("api", "GET"), kind |-> "fetch", textual |-> TRUE],
   [key |-> Key("api", "GET"), kind |-> "script", textual |-> TRUE],
   [key |-> Key("api", "GET"), kind |-> "stylesheet", textual |-> TRUE],
   [key |-> Key("top", "GET"), kind |-> "document", textual |-> TRUE],
   [key |-> Key("api", "GET"), kind |-> "document", textual |-> TRUE],
   [key |-> Key("api", "GET"), kind |-> "image", textual |-> FALSE]}

\* `resourceType === 'xhr' || resourceType === 'fetch'`
IsXhr(kind) == kind \in {"xhr", "fetch"}

\* A CapturedResponse; id 0 is the absent response of an XHRCapture.
NoResponse == [id |-> 0, key |-> Key("", ""), kind |-> "",
               body |-> "absent", size |-> "absent"]

\* The per-visit tables of fetchPage, the response handlers awaiting
\* res.body(), and the capture once returned.  The capture's
\* allNetworkRequests, scripts, stylesheets and documents are the visit's
\* own arrays; its xhrRequests is a new array of the XHRCapture objects
\* xhrMap held at the return (capXhr), of which capLinked are the keys
\* whose object xhrMap still holds.  ret is the capture as it was returned.
NoCapture ==
  [xhrRequests |-> <<>>, allNetworkRequests |-> <<>>, scripts |-> <<>>,
   stylesheets |-> <<>>, documents |-> <<>>]

NoRec ==
  [requests |-> 0, responses |-> 0, handlers |-> {},
   xhrMap |-> <<>>, allResponses |-> <<>>, scripts |-> <<>>,
   stylesheets |-> <<>>, documents |-> <<>>,
   returned |-> FALSE, capXhr |-> <<>>, capLinked |-> {}, ret |-> NoCapture]

\* Map.get / Map.set on a Map kept as the sequence of its entries in
\* insertion order: set replaces the entry of a key in place.
MapHas(m, key) == \E i \in 1..Len(m) : m[i].key = key

\* set that never replaces.
MapSetAppends(m, entry) == Append(m, entry)

MapSet(m, entry) ==
  IF MapHas(m, entry.key)
  THEN [i \in 1..Len(m) |-> IF m[i].key = entry.key THEN entry ELSE m[i]]
  ELSE Append(m, entry)

\* An assignment that is lost.
AttachNothing(m, res) == m

\* `existing.response = capturedRes` on the entry of a key.
Attach(m, res) ==
  [i \in 1..Len(m) |-> IF m[i].key = res.key THEN [m[i] EXCEPT !.response = res]
                       ELSE m[i]]

\* The observers run while the page exists.
Observed(v) == visit[v].page = "open"

\* page.on('request'): an xhr/fetch request sets a new XHRCapture, without
\* response, under its key.
OnRequest(v, key, kind) ==
  /\ ~exited
  /\ Observed(v)
  /\ rec[v].requests < MaxRequests
  /\ rec' = [rec EXCEPT ![v] =
       IF IsXhr(kind)
       THEN [@ EXCEPT !.requests = @ + 1,
               !.xhrMap = MapSet(@, [key |-> key, from |-> "request",
                                     response |-> NoResponse]),
               !.capLinked = @ \ {key}]
       ELSE [@ EXCEPT !.requests = @ + 1]]
  /\ UNCHANGED <<mgrVars, exited, startup, closer, visit, http, sideVars>>

\* page.on('response') up to its await of res.body().
OnResponse(v, key, kind, textual) ==
  /\ ~exited
  /\ Observed(v)
  /\ rec[v].responses < MaxResponses
  /\ rec' = [rec EXCEPT ![v].responses = @ + 1,
                        ![v].handlers = @ \cup
                          {[id |-> rec[v].responses + 1, key |-> key,
                            kind |-> kind, textual |-> textual]}]
  /\ UNCHANGED <<mgrVars, exited, startup, closer, visit, http, sideVars>>

\* Whether the handler goes on after res.body() settled: the catch swallows
\* a failed read.
HandlerGoesOnOnlyIfRead(ok) == ok

HandlerGoesOn(ok) == TRUE

\* The CapturedResponse of a handler: size and, for text-like content,
\* body are set only when the body was read.
CapturedRes(h, ok) ==
  [id |-> h.id, key |-> h.key, kind |-> h.kind,
   body |-> IF ok /\ h.textual THEN "text" ELSE "absent",
   size |-> IF ok THEN "known" ELSE "absent"]

\* The tables after the handler of h ran on from res.body().
Recorded(t, h, ok) ==
  LET res == CapturedRes(h, ok)
      side == [url |-> h.key.url, content |-> res.body]
      known == MapHas(t.xhrMap, h.key)
  IN [t EXCEPT
        !.allResponses = Append(@, res),
        !.xhrMap = IF ~IsXhr(h.kind) THEN @
                   ELSE IF known THEN Attach(@, res)
                   ELSE Append(@, [key |-> h.key, from |-> "response",
                                   response |-> res]),
        !.capXhr = IF IsXhr(h.kind) /\ known /\ h.key \in t.capLinked
                   THEN Attach(@, res) ELSE @,
        !.scripts = IF h.kind = "script" THEN Append(@, side) ELSE @,
        !.stylesheets = IF h.kind = "stylesheet" THEN Append(@, side) ELSE @,
        !.documents = IF h.kind = "document" /\ h.key.url # "top"
                      THEN Append(@, side) ELSE @]

\* res.body() of a handler settles, read (ok) or failed, whenever the
\* driver gets to it: before or after the visit's own steps, its return
\* included.
BodyDone(v, h, ok) ==
  /\ ~exited
  /\ h \in rec[v].handlers
  /\ rec' = [rec EXCEPT ![v] =
       LET t == [rec[v] EXCEPT !.handlers = @ \ {h}] IN
       IF HandlerGoesOn(ok) THEN Recorded(t, h, ok) ELSE t]
  /\ UNCHANGED <<mgrVars, exited, startup, closer, visit, http, sideVars>>

\* The capture fetchPage returns, as it reads now.
Capture(t) ==
  [xhrRequests |-> t.capXhr, allNetworkRequests |-> t.allResponses,
   scripts |-> t.scripts, stylesheets |-> t.stylesheets,
   documents |-> t.documents]

\* The return statement: xhrRequests is Array.from(xhrMap.values()).
Returning(t) ==
  LET u == [t EXCEPT !.returned = TRUE, !.capXhr = t.xhrMap,
              !.capLinked = {t.xhrMap[i].key : i \in 1..Len(t.xhrMap)}]
  IN [u EXCEPT !.ret = Capture(u)]

\* -------------------------------------------------------------- fetchPage
NoVisit ==
  [pc |-> "idle", req |-> NoRequest, awaits |-> 0, initOutcome |-> "none",
   browser |-> 0, context |-> "null", page |-> "null",
   networkIdleReached |-> TRUE, response |-> "undefined",
   navOutcome |-> "none", idleWaitOk |-> FALSE,
   fallbackWaits |-> 0, fallbackBudget |-> 0,
   pending |-> "none", dom |-> 0,
   capNetworkIdleReached |-> FALSE, capHtml |-> 0]

NextVisitSlot(v) == visit[v].pc = "idle" /\ \A u \in Visits : u < v => visit[u].pc # "idle"

\* The finally block, entered with the try block's completion `how`
\* ("return" or the error thrown): page.close() is awaited if a page exists,
\* then context.close() if a context exists; with neither the call settles.
FinallySkipsContext(r, how) ==
  LET s == [r EXCEPT !.pending = how] IN
  IF r.page = "open" THEN [s EXCEPT !.pc = "closePage"]
  ELSE [s EXCEPT !.pc = IF how = "return" THEN "returned" ELSE "failed"]

Finally(r, how) ==
  LET s == [r EXCEPT !.pending = how] IN
  IF r.page # "null" THEN [s EXCEPT !.pc = "closePage"]
  ELSE IF r.context # "null" THEN [s EXCEPT !.pc = "closeContext"]
  ELSE [s EXCEPT !.pc = IF how = "return" THEN "returned" ELSE "failed"]

\* After the optional selector wait: the settle delay if one was asked for,
\* else the snapshot.
AfterSelector(r) ==
  IF r.req.additionalWaitMs > 0 THEN [r EXCEPT !.pc = "settle"]
  ELSE [r EXCEPT !.pc = "snapshot"]

\* `!response && networkIdleReached`
NoResponseReceived(r) == r.response # "response" /\ r.networkIdleReached

\* After the navigation: the no-response check, then the selector wait if
\* one was asked for.
AfterNavigation(r) ==
  IF NoResponseReceived(r) THEN Finally(r, "NoResponse")
  ELSE IF r.req.waitForSelector THEN [r EXCEPT !.pc = "selector"]
  ELSE AfterSelector(r)

\* The catch of the network-idle attempt: a TimeoutError under the
\* networkidle strategy falls back, anything else is thrown on.
GotoFallsBackAnyStrategy(waitUntil, outcome) == outcome = "timeout"

GotoFallsBack(waitUntil, outcome) ==
  waitUntil = "networkidle" /\ outcome = "timeout"

\* The budget of the DOM-ready wait of the fallback.
FallbackBudget(req) == req.timeout - req.networkIdleTimeout

\* The initial value of networkIdleReached.
NetworkIdleReachedInitially(req) == TRUE

\* fetchPage from `if (!this.browser)` to the await of newContext.
EnterVisit(r) ==
  IF browser = 0
  THEN [r EXCEPT !.pc = "failed", !.pending = "BrowserNotInitialized"]
  ELSE [r EXCEPT !.pc = "newContext", !.browser = browser]

\* fetchPage(request) up to its first await that yields: initialize(), and
\* when that returns at once (the browser exists) on to newContext.
FetchPage(v, request) ==
  /\ ~exited
  /\ NextVisitSlot(v)
  /\ Initialize
  /\ LET r == [NoVisit EXCEPT !.req = request,
                 !.networkIdleReached = NetworkIdleReachedInitially(request)] IN
     visit' = [visit EXCEPT ![v] =
       IF InitializeAwaits = 0
       THEN EnterVisit([r EXCEPT !.initOutcome = "fulfilled"])
       ELSE [r EXCEPT !.pc = "awaitInit", !.awaits = InitializeAwaits]]

\* A fetchPage call by any caller of the manager.
FetchPageCall(v, request) ==
  /\ FetchPage(v, request)
  /\ UNCHANGED <<exited, startup, closer, rec, http, sideVars>>

\* `await this.initialize()` resumes: a rejected launch rejects the call.
InitResume(v) ==
  /\ ~exited
  /\ visit[v].pc = "awaitInit"
  /\ promise[visit[v].awaits] \in {"fulfilled", "rejected"}
  /\ LET r == [visit[v] EXCEPT !.initOutcome = promise[visit[v].awaits]] IN
     visit' = [visit EXCEPT ![v] =
       IF r.initOutcome = "rejected"
       THEN [r EXCEPT !.pc = "failed", !.pending = "LaunchError"]
       ELSE EnterVisit(r)]
  /\ UNCHANGED <<mgrVars, exited, startup, closer, rec, http, sideVars>>

\* A driver call on the visit's browser can only succeed while that browser
\* process is open.
Usable(v) == visit[v].browser # 0 /\ proc[visit[v].browser] = "open"

VisitStep(v, at, r) ==
  /\ ~exited
  /\ visit[v].pc = at
  /\ visit' = [visit EXCEPT ![v] = r]
  /\ UNCHANGED <<mgrVars, exited, startup, closer, rec, http, sideVars>>

\* browser.newContext() settles.
NewContext(v, ok) ==
  /\ ok => Usable(v)
  /\ VisitStep(v, "newContext",
       IF ok THEN [visit[v] EXCEPT !.context = "open", !.pc = "newPage"]
       ELSE Finally(visit[v], "ContextError"))

\* context.newPage() settles; the observers are attached and page.goto is
\* called.
NewPage(v, ok) ==
  /\ ok => Usable(v)
  /\ VisitStep(v, "newPage",
       IF ok THEN [visit[v] EXCEPT !.page = "open", !.pc = "goto"]
       ELSE Finally(visit[v], "PageError"))

GotoOutcomes == {"response", "null", "timeout", "error"}

\* page.goto settles: with a response, with null, with a TimeoutError or
\* with another error.
Goto(v, outcome) ==
  /\ outcome # "error" => Usable(v)
  /\ LET r == [visit[v] EXCEPT !.navOutcome = outcome] IN
     VisitStep(v, "goto",
       IF outcome \in {"response", "null"}
       THEN AfterNavigation([r EXCEPT !.response = outcome,
              !.idleWaitOk = (r.req.waitUntil = "networkidle")])
       ELSE IF GotoFallsBack(r.req.waitUntil, outcome)
       THEN [r EXCEPT !.networkIdleReached = FALSE,
                      !.fallbackWaits = @ + 1,
                      !.fallbackBudget = FallbackBudget(r.req),
                      !.pc = "fallback"]
       ELSE Finally(r, IF outcome = "timeout" THEN "TimeoutError"
                       ELSE "NavigationError"))

\* What follows page.waitForLoadState('domcontentloaded') of the fallback:
\* its failure is caught and ignored.
AfterFallbackThrows(r, ok) ==
  IF ok THEN AfterNavigation(r) ELSE Finally(r, "FallbackError")

AfterFallback(r, ok) == AfterNavigation(r)

Fallback(v, ok) ==
  /\ ok => Usable(v)
  /\ VisitStep(v, "fallback", AfterFallback(visit[v], ok))

\* page.waitForSelector settles: not finding the selector is ignored.
Selector(v, ok) ==
  /\ ok => Usable(v)
  /\ VisitStep(v, "selector", AfterSelector(visit[v]))

\* page.waitForTimeout(additionalWaitMs) settles.
Settle(v, ok) ==
  /\ ok => Usable(v)
  /\ VisitStep(v, "settle",
       IF ok THEN [visit[v] EXCEPT !.pc = "snapshot"]
       ELSE Finally(visit[v], "SettleError"))

\* The snapshot: page.content(), page.title() and context.cookies() settle,
\* the HTML being what the page holds now; the capture is built and
\* returned.  Any of the three failing throws.
Snapshot(v, ok) ==
  /\ ~exited
  /\ visit[v].pc = "snapshot"
  /\ ok => Usable(v)
  /\ visit' = [visit EXCEPT ![v] =
       IF ok
       THEN Finally([visit[v] EXCEPT
                       !.capNetworkIdleReached = visit[v].networkIdleReached,
                       !.capHtml = visit[v].dom], "return")
       ELSE Finally(visit[v], "SnapshotError")]
  /\ rec' = [rec EXCEPT ![v] = IF ok THEN Returning(@) ELSE @]
  /\ UNCHANGED <<mgrVars, exited, startup, closer, http, sideVars>>

\* finally: page.close() has resolved, context.close() is awaited.
ClosePage(v) ==
  VisitStep(v, "closePage",
    LET r == [visit[v] EXCEPT !.page = "closed"] IN
    IF r.context # "null" THEN [r EXCEPT !.pc = "closeContext"]
    ELSE [r EXCEPT !.pc = IF r.pending = "return" THEN "returned" ELSE "failed"])

\* finally: context.close() has resolved, the call settles.
CloseContext(v) ==
  VisitStep(v, "closeContext",
    [visit[v] EXCEPT !.context = "closed",
       !.pc = IF visit[v].pending = "return" THEN "returned" ELSE "failed"])

\* The page goes on loading: its DOM changes.
PageProgress(v) ==
  /\ visit[v].page = "open"
  /\ visit[v].dom < MaxDom
  /\ Usable(v)
  /\ VisitStep(v, visit[v].pc, [visit[v] EXCEPT !.dom = @ + 1])

\* ------------------------------------------------------- specifications
NoHttp == [status |-> "none"]

\* No API_KEY in the environment; no HTTP request received; no analysis call.
NoApiKey == ""

NoInbound == [path |-> "", authorization |-> "", xApiKey |-> ""]

NoCall == [fn |-> "none"]

\* The program once its modules are loaded: the manager constructed, nothing
\* called yet.
InitProgram ==
  /\ browser = 0
  /\ initPromise = 0
  /\ launchCount = 0
  /\ proc = [l \in Launches |-> "none"]
  /\ promise = [l \in Launches |-> "none"]
  /\ exited = FALSE
  /\ startup = [pc |-> "idle", awaits |-> 0, outcome |-> "none"]
  /\ closer = [c \in Closers |-> [pc |-> "idle", handle |-> 0, signal |-> FALSE]]
  /\ visit = [v \in Visits |-> NoVisit]
  /\ rec = [v \in Visits |-> NoRec]
  /\ http = [v \in Visits |-> NoHttp]
  /\ inbound = [v \in Visits |-> NoInbound]

Init ==
  /\ InitProgram
  /\ apiKey = NoApiKey
  /\ call = NoCall

Launching ==
  \E l \in Launches : LaunchSpawn(l) \/ LaunchResolve(l) \/ LaunchReject(l)

\* The steps of a visit that every visit takes.
CoreSteps(v, oks, gotos) ==
  \/ InitResume(v)
  \/ \E ok \in oks : NewContext(v, ok) \/ NewPage(v, ok) \/ Snapshot(v, ok)
  \/ \E o \in gotos : Goto(v, o)
  \/ ClosePage(v)
  \/ CloseContext(v)

\* The waits a visit takes only on request or after a network-idle timeout.
WaitSteps(v, oks) ==
  \E ok \in oks : Fallback(v, ok) \/ Selector(v, ok) \/ Settle(v, ok)

\* The manager under concurrent callers: the startup initialize(), fetchPage
\* calls, close() calls and shutdown signals.  The visits are plain ones: a
\* driver call fails only when the browser it runs on is gone.
Next ==
  \/ StartupInitialize
  \/ StartupResume
  \/ Launching
  \/ \E v \in Visits, q \in ManagerRequests : FetchPageCall(v, q)
  \/ \E v \in Visits :
       CoreSteps(v, {Usable(v)}, IF Usable(v) THEN {"response"} ELSE {"error"})
  \/ \E c \in Closers : Close(c) \/ Signal(c) \/ CloseResume(c)

Spec == Init /\ [][Next]_vars

\* The visit the single-visit specifications follow.
FirstVisit == CHOOSE v \in Visits : \A u \in Visits : v <= u

\* One visit in full: any validated request, every driver call free to fail
\* or succeed, any outcome of the navigation, the page loading on meanwhile.
NextNavigation ==
  \/ Launching
  \/ \E q \in Requests : FetchPageCall(FirstVisit, q)
  \/ CoreSteps(FirstVisit, BOOLEAN, GotoOutcomes)
  \/ WaitSteps(FirstVisit, BOOLEAN)
  \/ PageProgress(FirstVisit)

SpecNavigation == Init /\ [][NextNavigation]_vars

\* The requests of the recorder specification: what matters there is how the
\* observers' events fall between the steps of the visit.
RecorderRequests ==
  {FetchRequest("load", DefaultTimeout, DefaultNetworkIdleTimeout, FALSE, 0)}

Observers(v) ==
  \/ \E q \in RequestShapes : OnRequest(v, q.key, q.kind)
  \/ \E p \in ResponseShapes : OnResponse(v, p.key, p.kind, p.textual)
  \/ \E h \in rec[v].handlers, ok \in BOOLEAN : BodyDone(v, h, ok)

\* One visit and the events of its page.
NextRecorder ==
  \/ Launching
  \/ \E q \in RecorderRequests : FetchPageCall(FirstVisit, q)
  \/ CoreSteps(FirstVisit, BOOLEAN, {"response", "error"})
  \/ Observers(FirstVisit)

SpecRecorder == Init /\ [][NextRecorder]_vars

\* ------------------------------------------------------------ HTTP callers
\* A field of a request body (or of a query string, after parseInt):
\* absent, a number, or something that is no number.
Absent == [kind |-> "absent", value |-> 0]

Num(n) == [kind |-> "number", value |-> n]

NotANumber == [kind |-> "other", value |-> 0]

\* z.number().min(lo).max(hi).optional().default(d)
NumberField(input, lo, hi, d) ==
  CASE input.kind = "absent" -> [ok |-> TRUE, value |-> d]
    [] input.kind = "number" ->
         [ok |-> lo <= input.value /\ input.value <= hi, value |-> input.value]
    [] OTHER -> [ok |-> FALSE, value |-> d]

\* z.enum(['load', 'domcontentloaded', 'networkidle']).optional().default('networkidle')
WaitUntilField(input) ==
  IF input = "absent" THEN [ok |-> TRUE, value |-> "networkidle"]
  ELSE [ok |-> input \in WaitUntilValues, value |-> input]

\* FetchRequestSchema.parse(body): each field is validated on its own.
ParseFetchRequest(body) ==
  LET w == WaitUntilField(body.waitUntil)
      t == NumberField(body.timeout, MinTimeout, MaxTimeout, DefaultTimeout)
      n == NumberField(body.networkIdleTimeout, MinTimeout, MaxTimeout,
                       DefaultNetworkIdleTimeout)
      a == NumberField(body.additionalWaitMs, 0, MaxAdditionalWaitMs, 0)
  IN [ok |-> body.urlValid /\ w.ok /\ t.ok /\ n.ok /\ a.ok,
      request |-> FetchRequest(w.value, t.value, n.value,
                               body.waitForSelector, a.value)]

\* The bodies sent to /fetch: each numeric field absent, at and beyond its
\* limits, and no number at all.
TimeoutInputs ==
  {Absent, NotANumber, Num(MinTimeout - 1), Num(MinTimeout), Num(MaxTimeout),
   Num(MaxTimeout + 1)}

Bodies ==
  [urlValid : BOOLEAN,
   waitUntil : {"absent", "load", "networkidle", "never"},
   timeout : TimeoutInputs,
   networkIdleTimeout : TimeoutInputs,
   waitForSelector : BOOLEAN,
   additionalWaitMs : {Absent, Num(500), Num(MaxAdditionalWaitMs + 1)}]

\* POST /fetch and GET /fetch up to the await of fetchPage: the body is
\* validated and the parsed request handed to fetchPage; a ZodError is
\* answered 400.  (What the middleware was given is the caller's to record.)
HttpFetch(v, body) ==
  /\ ~exited
  /\ http[v].status = "none"
  /\ IF ParseFetchRequest(body).ok
     THEN /\ FetchPage(v, ParseFetchRequest(body).request)
          /\ http' = [http EXCEPT ![v].status = "pending"]
          /\ UNCHANGED <<exited, startup, closer, rec, apiKey, call>>
     ELSE /\ NextVisitSlot(v)
          /\ http' = [http EXCEPT ![v].status = "400"]
          /\ UNCHANGED <<mgrVars, exited, startup, closer, visit, rec, apiKey, call>>

\* The handler after fetchPage settled: res.json(result), or 500.
HttpRespond(v) ==
  /\ ~exited
  /\ http[v].status = "pending"
  /\ visit[v].pc \in {"returned", "failed"}
  /\ http' = [http EXCEPT ![v].status =
                IF visit[v].pc = "returned" THEN "200" ELSE "500"]
  /\ UNCHANGED <<mgrVars, exited, startup, closer, visit, rec, sideVars>>

\* One HTTP request to /fetch and the visit it starts; the driver's calls
\* succeed, and the navigation may time out.
NextCaller ==
  \/ Launching
  \/ \E body \in Bodies : HttpFetch(FirstVisit, body) /\ UNCHANGED inbound
  \/ CoreSteps(FirstVisit, {TRUE}, {"response", "timeout"})
  \/ WaitSteps(FirstVisit, {TRUE})
  \/ HttpRespond(FirstVisit)

SpecCaller == Init /\ [][NextCaller]_vars

\* ------------------------------------------------------------ JS strings
\* The String methods the filters use, on strings as sequences of
\* characters.
CharAt(s, i) == SubSeq(s, i, i)

StartsWith(s, p) == Len(p) <= Len(s) /\ SubSeq(s, 1, Len(p)) = p

EndsWith(s, p) == Len(p) <= Len(s) /\ SubSeq(s, Len(s) - Len(p) + 1, Len(s)) = p

\* s.includes(p) from position `from` on.
IncludesFrom(s, p, from) ==
  \E i \in from..(Len(s) - Len(p) + 1) : SubSeq(s, i, i + Len(p) - 1) = p

Includes(s, p) == IncludesFrom(s, p, 1)

\* s.indexOf(p), 1-based; 0 when p does not occur.
IndexOf(s, p) ==
  IF Includes(s, p)
  THEN CHOOSE i \in 1..(Len(s) - Len(p) + 1) :
         /\ SubSeq(s, i, i + Len(p) - 1) = p
         /\ \A j \in 1..(i - 1) : SubSeq(s, j, j + Len(p) - 1) # p
  ELSE 0

UpperLetters == "ABCDEFGHIJKLMNOPQRSTUVWXYZ"

LowerLetters == "abcdefghijklmnopqrstuvwxyz"

Digits == "0123456789"

LowerOf == [c \in {CharAt(UpperLetters, i) : i \in 1..Len(UpperLetters)} |->
              CharAt(LowerLetters, IndexOf(UpperLetters, c))]

LowerChar(c) == IF c \in DOMAIN LowerOf THEN LowerOf[c] ELSE c

RECURSIVE Gather(_, _, _)
\* The pieces lo..hi of a string given piece by piece, joined.
Gather(piece, lo, hi) ==
  IF lo > hi THEN ""
  ELSE IF lo = hi THEN piece[lo]
  ELSE Gather(piece, lo, (lo + hi) \div 2) \o Gather(piece, (lo + hi) \div 2 + 1, hi)

ToLowerCase(s) == Gather([i \in 1..Len(s) |-> LowerChar(CharAt(s, i))], 1, Len(s))

IsSpace(c) == c \in {" ", "\t", "\n", "\r"}

\* The first position from i on that holds no white space (\s*).
SkipSpaces(s, i) ==
  CHOOSE j \in i..(Len(s) + 1) :
    /\ j = Len(s) + 1 \/ ~IsSpace(CharAt(s, j))
    /\ \A k \in i..(j - 1) : IsSpace(CharAt(s, k))

TrimStart(s) == SubSeq(s, SkipSpaces(s, 1), Len(s))

TrimEnd(s) ==
  SubSeq(s, 1, CHOOSE j \in 0..Len(s) :
                 /\ j = 0 \/ ~IsSpace(CharAt(s, j))
                 /\ \A k \in (j + 1)..Len(s) : IsSpace(CharAt(s, k)))

Trim(s) == TrimEnd(TrimStart(s))

\* \w of a regular expression, at position i of s (false outside s).
WordChars ==
  UNION {{CharAt(w, i) : i \in 1..Len(w)} :
           w \in {LowerLetters, UpperLetters, Digits, "_"}}

IsWordAt(s, i) == 1 <= i /\ i <= Len(s) /\ CharAt(s, i) \in WordChars

\* \b of a regular expression, between positions i - 1 and i of s.
WordBoundaryAt(s, i) == IsWordAt(s, i - 1) # IsWordAt(s, i)

\* ----------------------------------------------------------------- URLs
\* new URL(url) for the http(s) URLs a browser reports: the parts of the
\* string, the hostname lower-cased and without port, the pathname "/" when
\* empty, the search "" when it is a bare "?".  A string without "://"
\* throws.
FirstOf(s, marks) ==
  IF \E i \in 1..Len(s) : CharAt(s, i) \in marks
  THEN CHOOSE i \in 1..Len(s) :
         /\ CharAt(s, i) \in marks
         /\ \A j \in 1..(i - 1) : CharAt(s, j) \notin marks
  ELSE Len(s) + 1

ParseURL(url) ==
  IF ~Includes(url, "://") THEN [valid |-> FALSE, hostname |-> "", pathname |-> "",
                                 search |-> ""]
  ELSE
    LET rest == SubSeq(url, IndexOf(url, "://") + 3, Len(url))
        hostEnd == FirstOf(rest, {"/", "?", "#"})
        hostPort == SubSeq(rest, 1, hostEnd - 1)
        host == SubSeq(hostPort, 1, FirstOf(hostPort, {":"}) - 1)
        tail == SubSeq(rest, hostEnd, Len(rest))
        noHash == SubSeq(tail, 1, FirstOf(tail, {"#"}) - 1)
        pathEnd == FirstOf(noHash, {"?"})
        path == SubSeq(noHash, 1, pathEnd - 1)
        query == SubSeq(noHash, pathEnd, Len(noHash))
    IN [valid |-> host # "",
        hostname |-> ToLowerCase(host),
        pathname |-> IF path = "" THEN "/" ELSE path,
        search |-> IF query = "?" THEN "" ELSE query]

\* ------------------------------------------------------ analytics filter
ANALYTICS_DOMAINS ==
  {"google-analytics.com", "googletagmanager.com", "googlesyndication.com",
   "googleadservices.com", "doubleclick.net", "facebook.net", "facebook.com/tr",
   "connect.facebook.net", "analytics.facebook.com", "segment.io", "segment.com",
   "cdn.segment.com", "api.segment.io", "mixpanel.com", "hotjar.com", "hotjar.io",
   "clarity.ms", "newrelic.com", "nr-data.net", "sentry.io", "sentry-cdn.com",
   "fullstory.com", "amplitude.com", "heapanalytics.com", "heap-api.com",
   "optimizely.com", "cdn.optimizely.com", "intercom.io", "intercomcdn.com",
   "crisp.chat", "drift.com", "hubspot.com", "hs-analytics.net", "hsforms.com",
   "mxpnl.com", "branch.io", "app.link", "appsflyer.com", "adjust.com",
   "kochava.com", "bugsnag.com", "logrocket.com", "logrocket.io", "smartlook.com",
   "mouseflow.com", "luckyorange.com", "crazyegg.com", "clicktale.net",
   "quantserve.com", "scorecardresearch.com", "chartbeat.com", "parsely.com",
   "pingdom.net", "speedcurve.com", "datadoghq.com",
   "rum.browser-intake-datadoghq.com", "browser-intake-datadoghq.com",
   "onesignal.com", "pusher.com", "pubnub.com", "adsrvr.org", "adroll.com",
   "taboola.com", "outbrain.com", "criteo.com", "criteo.net",
   "amazon-adsystem.com", "ads-twitter.com", "ads.linkedin.com",
   "snap.licdn.com", "px.ads.linkedin.com", "bat.bing.com", "mc.yandex.ru",
   "top-fwz1.mail.ru", "vk.com/rtrg", "tiktok.com/i18n/pixel",
   "analytics.tiktok.com"}

\* A pattern of ANALYTICS_PATH_PATTERNS: a literal, \b after it or not, and
\* for /\.png\?.*utm/ a second literal anywhere after the first.  All carry
\* the i flag.  /\/events?\b/ is its two alternatives.
Pattern(lit, boundary, then) == [lit |-> lit, boundary |-> boundary, then |-> then]

ANALYTICS_PATH_PATTERNS ==
  {Pattern("/collect", TRUE, ""), Pattern("/track", TRUE, ""),
   Pattern("/beacon", TRUE, ""), Pattern("/pixel", TRUE, ""),
   Pattern("/analytics", TRUE, ""), Pattern("/__analytics", FALSE, ""),
   Pattern("/log", TRUE, ""), Pattern("/telemetry", TRUE, ""),
   Pattern("/metrics", TRUE, ""), Pattern("/events", TRUE, ""),
   Pattern("/event", TRUE, ""), Pattern("/ping", TRUE, ""),
   Pattern("/heartbeat", TRUE, ""), Pattern("/v1/batch", TRUE, ""),
   Pattern("/v1/t", TRUE, ""), Pattern("/v1/p", TRUE, ""),
   Pattern("/v1/i", TRUE, ""), Pattern("/r/collect", TRUE, ""),
   Pattern("/j/collect", TRUE, ""), Pattern("/g/collect", TRUE, ""),
   Pattern("/mp/collect", TRUE, ""), Pattern(".gif?", FALSE, ""),
   Pattern(".png?", FALSE, "utm"), Pattern("/tr?", FALSE, ""),
   Pattern("/xd_arbiter", FALSE, ""), Pattern("/sdk.js", FALSE, ""),
   Pattern("/gtag/", FALSE, ""), Pattern("/gtm/", FALSE, "")}

EXCLUDED_RESOURCE_TYPES ==
  {"image", "media", "font", "stylesheet", "manifest", "preflight"}

\* pattern.test(s) for a pattern with the i flag: the literals are in
\* lower case and are looked for in s lower-cased (low).
PatternTest(p, low) ==
  \E i \in 1..(Len(low) - Len(p.lit) + 1) :
    /\ SubSeq(low, i, i + Len(p.lit) - 1) = p.lit
    /\ p.boundary => WordBoundaryAt(low, i + Len(p.lit))
    /\ p.then # "" => IncludesFrom(low, p.then, i + Len(p.lit))

\* hostname === domain || hostname.endsWith('.' + domain)
DomainMatchesAnySuffix(hostname, domain) == EndsWith(hostname, domain)

DomainMatches(hostname, domain) ==
  hostname = domain \/ EndsWith(hostname, "." \o domain)

isAnalyticsDomain(url) ==
  LET u == ParseURL(url) IN
  /\ u.valid
  /\ \E domain \in ANALYTICS_DOMAINS : DomainMatches(ToLowerCase(u.hostname), domain)

isAnalyticsPath(url) ==
  LET u == ParseURL(url) IN
  /\ u.valid
  /\ LET pathAndQuery == ToLowerCase(u.pathname \o u.search) IN
     \E pattern \in ANALYTICS_PATH_PATTERNS : PatternTest(pattern, pathAndQuery)

\* An optional string argument: undefined or a string.
Undefined == [defined |-> FALSE, text |-> ""]

Str(s) == [defined |-> TRUE, text |-> s]

MinMeaningfulLength == 50

\* /^(ok|success|1|true|"ok"|"success")$/i
AckTokens == {"ok", "success", "1", "true", "\"ok\"", "\"success\""}

isTrivialPayloadNoMinLength(body) ==
  \/ ~body.defined
  \/ body.text = ""
  \/ Trim(body.text) \in {"", "{}", "[]", "null"}
  \/ ToLowerCase(Trim(body.text)) \in AckTokens

isTrivialPayload(body) ==
  \/ ~body.defined
  \/ body.text = ""
  \/ Len(body.text) < MinMeaningfulLength
  \/ Trim(body.text) \in {"", "{}", "[]", "null"}
  \/ ToLowerCase(Trim(body.text)) \in AckTokens

isAnalyticsRequest(url, body) == isAnalyticsDomain(url) \/ isAnalyticsPath(url)

isDataContentType(contentType) ==
  LET ct == ToLowerCase(contentType) IN
  \/ Includes(ct, "json")
  \/ Includes(ct, "xml")
  \/ Includes(ct, "html")
  \/ Includes(ct, "text/plain")

isCoreDataRequest(url, contentType, resourceType, body) ==
  /\ resourceType \notin EXCLUDED_RESOURCE_TYPES
  /\ resourceType \in {"xhr", "fetch"}
  /\ ~isAnalyticsRequest(url, body)
  /\ isDataContentType(contentType)
  /\ ~isTrivialPayload(body)

getContentCategory(contentType) ==
  LET ct == ToLowerCase(contentType) IN
  IF Includes(ct, "json") THEN "json"
  ELSE IF Includes(ct, "xml") THEN "xml"
  ELSE IF Includes(ct, "html") THEN "html"
  ELSE IF Includes(ct, "text") THEN "text"
  ELSE "unknown"

\* The arguments the filter is called with: hosts on and off the list, in
\* either case, with a port, as a subdomain and as a mere suffix; paths that
\* match a pattern, miss its word boundary, or carry it only in the hash;
\* content types of each accepted family and of none; every resource kind
\* the filter tests; bodies absent, empty, short, at the length limit, and
\* long but blank or a bare token once trimmed.
FilterUrls ==
  {"https://api.example.com/v1/products?page=2",
   "https://www.google-analytics.com/v1/products",
   "https://WWW.Google-Analytics.COM/v1/products",
   "https://google-analytics.com/v1/products",
   "https://notgoogle-analytics.com/v1/products",
   "https://sentry.io:8443/v1/products",
   "https://facebook.com/v1/products",
   "https://api.example.com/collect",
   "https://api.example.com/collector",
   "https://api.example.com/api/Events?x=1",
   "https://api.example.com/img.png?a=1&utm_source=x",
   "https://api.example.com/v1/products#/track",
   "not a url"}

FilterContentTypes ==
  {"application/json", "Application/JSON; charset=utf-8", "application/xml",
   "image/svg+xml", "text/html", "text/plain", "text/css",
   "application/octet-stream", ""}

FilterResourceTypes ==
  {"xhr", "fetch", "image", "stylesheet", "preflight", "script", "document",
   "other"}

Repeat(c, n) == Gather([i \in 1..n |-> c], 1, n)

WidgetBody == "{\"id\":1,\"name\":\"Widget\"}"

CatalogBody ==
  "{\"id\":1,\"name\":\"Widget\",\"price\":9.99,\"tags\":[\"a\",\"b\"],\"stock\":null}"

FilterBodies ==
  {Undefined, Str(""), Str("{}"), Str("ok"), Str(WidgetBody), Str(CatalogBody),
   Str(Repeat("a", MinMeaningfulLength - 1)), Str(Repeat("a", MinMeaningfulLength)),
   Str(Repeat(" ", MinMeaningfulLength)),
   Str("{}" \o Repeat(" ", MinMeaningfulLength)),
   Str(Repeat("\n", MinMeaningfulLength) \o "null"),
   Str(" OK" \o Repeat(" ", MinMeaningfulLength)),
   Str("\"Success\"" \o Repeat(" ", MinMeaningfulLength))}

FilterCalls ==
  [fn : {"isCoreDataRequest"}, url : FilterUrls, contentType : FilterContentTypes,
   resourceType : FilterResourceTypes, body : FilterBodies,
   done : {FALSE}, out : {FALSE}]

progVars == <<mgrVars, exited, startup, closer, visit, rec, http>>

InitFilter ==
  /\ InitProgram
  /\ apiKey = NoApiKey
  /\ call \in FilterCalls

\* The call returns.
CoreDataRequest ==
  /\ call.fn = "isCoreDataRequest"
  /\ ~call.done
  /\ call' = [call EXCEPT
       !.done = TRUE,
       !.out = isCoreDataRequest(call.url, call.contentType, call.resourceType,
                                 call.body)]
  /\ UNCHANGED <<progVars, apiKey, inbound>>

NextFilter == CoreDataRequest

SpecFilter == InitFilter /\ [][NextFilter]_vars

\* ------------------------------------------------------------ JS values
\* A value as JSON.parse (or the evaluation of an object literal) yields it:
\* its typeof-like kind, the text of an atom, and for objects the keys in
\* insertion order with their values, for arrays the items.
Value(t, a, keys, kids) == [t |-> t, a |-> a, keys |-> keys, kids |-> kids]

JUndefined == Value("undefined", "", <<>>, <<>>)

JNull == Value("null", "", <<>>, <<>>)

JBool(b) == Value("boolean", IF b THEN "true" ELSE "false", <<>>, <<>>)

\* A number, by its decimal text.
JNum(a) == Value("number", a, <<>>, <<>>)

JStr(s) == Value("string", s, <<>>, <<>>)

JArr(items) == Value("array", "", <<>>, items)

JObj(keys, vals) == Value("object", "", keys, vals)

\* `if (v)`, `v && ...`
Truthy(v) ==
  CASE v.t \in {"undefined", "null"} -> FALSE
    [] v.t = "boolean" -> v.a = "true"
    [] v.t = "number" -> v.a \notin {"0", "NaN"}
    [] v.t = "string" -> v.a # ""
    [] OTHER -> TRUE

\* v?.[key] on a parsed value: undefined unless v is an object with the key.
Get(v, key) ==
  IF v.t = "object" /\ \E i \in 1..Len(v.keys) : v.keys[i] = key
  THEN v.kids[CHOOSE i \in 1..Len(v.keys) : v.keys[i] = key]
  ELSE JUndefined

\* Object.keys(v).length
KeyCount(v) ==
  CASE v.t = "object" -> Len(v.keys)
    [] v.t = "array" -> Len(v.kids)
    [] v.t = "string" -> Len(v.a)
    [] OTHER -> 0

RECURSIVE Stringify(_)
RECURSIVE StringifyItems(_, _, _)
\* JSON.stringify(v) of a parsed value (its strings hold no character that
\* needs an escape).
Stringify(v) ==
  CASE v.t = "object" -> "{" \o StringifyItems(v.keys, v.kids, 1) \o "}"
    [] v.t = "array" -> "[" \o StringifyItems(<<>>, v.kids, 1) \o "]"
    [] v.t = "string" -> "\"" \o v.a \o "\""
    [] v.t = "null" -> "null"
    [] OTHER -> v.a

StringifyItems(keys, kids, i) ==
  IF i > Len(kids) THEN ""
  ELSE (IF i > 1 THEN "," ELSE "")
       \o (IF keys # <<>> THEN "\"" \o keys[i] \o "\":" ELSE "")
       \o Stringify(kids[i])
       \o StringifyItems(keys, kids, i + 1)

\* The JSON texts of this model and the values they parse to; every other
\* text of the model is not JSON.
EmbeddedPageText == "{\"props\":{\"pageProps\":{\"id\":1}}}"

EmbeddedEmptyText == "{\"props\":{\"pageProps\":{}}}"

EmbeddedStateText == "[{\"state\":1}]"

GraphBody ==
  "{\"data\":{\"items\":[{\"id\":1,\"name\":\"Widget\"}]},\"extensions\":{}}"

TypenameBody ==
  "{\"items\":[{\"__typename\":\"Item\",\"id\":1},{\"__typename\":\"Item\",\"id\":2}]}"

FalseBody == "false" \o Repeat(" ", MinMeaningfulLength)

BadJsonBody == "{\"id\":1,\"name\":\"Widget\",\"price\":9.99,\"tags\":[\"a\",\"b\"],"

Widget == JObj(<<"id", "name">>, <<JNum("1"), JStr("Widget")>>)

TypedItem(id) == JObj(<<"__typename", "id">>, <<JStr("Item"), JNum(id)>>)

JSONTexts ==
  (WidgetBody :> Widget)
  @@ (CatalogBody :>
        JObj(<<"id", "name", "price", "tags", "stock">>,
             <<JNum("1"), JStr("Widget"), JNum("9.99"),
               JArr(<<JStr("a"), JStr("b")>>), JNull>>))
  @@ (GraphBody :>
        JObj(<<"data", "extensions">>,
             <<JObj(<<"items">>, <<JArr(<<Widget>>)>>), JObj(<<>>, <<>>)>>))
  @@ (TypenameBody :>
        JObj(<<"items">>, <<JArr(<<TypedItem("1"), TypedItem("2")>>)>>))
  @@ (FalseBody :> JBool(FALSE))
  @@ (EmbeddedPageText :>
        JObj(<<"props">>,
             <<JObj(<<"pageProps">>, <<JObj(<<"id">>, <<JNum("1")>>)>>)>>))
  @@ (EmbeddedEmptyText :>
        JObj(<<"props">>, <<JObj(<<"pageProps">>, <<JObj(<<>>, <<>>)>>)>>))
  @@ (EmbeddedStateText :> JArr(<<JObj(<<"state">>, <<JNum("1")>>)>>))
  @@ ("0" :> JNum("0"))
  @@ ("null" :> JNull)

\* safeJsonParse: the value, or null when JSON.parse throws.
safeJsonParse(str) ==
  IF str \in DOMAIN JSONTexts THEN JSONTexts[str] ELSE JNull

\* The XML texts of this model and what XMLParser.parse makes of them
\* (attributes under "@_", text under "#text", values parsed); on any
\* other text of the model the parser throws.
FeedBody ==
  "<?xml version=\"1.0\"?><items><item id=\"1\">Widget</item></items>"

BadXmlBody == "<items><item id=\"1\">Widget</item><item id=\"2\">Gadget</items"

XMLTexts ==
  FeedBody :>
    JObj(<<"?xml", "items">>,
         <<JObj(<<"@_version">>, <<JNum("1")>>),
           JObj(<<"item">>,
                <<JObj(<<"#text", "@_id">>, <<JStr("Widget"), JNum("1")>>)>>)>>)

\* xmlToJson: the tree, or null when the parser throws.
xmlToJson(xmlString) ==
  IF xmlString \in DOMAIN XMLTexts THEN XMLTexts[xmlString] ELSE JNull

\* --------------------------------------------------------------- analyzer
\* isGraphQLResponse: an object (or array) with a data or errors key, or
\* whose JSON text holds "__typename".
isGraphQLResponse(data) ==
  /\ data.t \in {"object", "array"}
  /\ \/ \E i \in 1..Len(data.keys) : data.keys[i] \in {"data", "errors"}
     \/ Includes(Stringify(data), "__typename")

isGraphQLEndpoint(url) ==
  LET lowerUrl == ToLowerCase(url) IN
  Includes(lowerUrl, "/graphql") \/ Includes(lowerUrl, "/gql")

\* The position of the first p in s from i on; 0 when there is none.
IndexFrom(s, p, i) ==
  IF IncludesFrom(s, p, i)
  THEN CHOOSE j \in i..(Len(s) - Len(p) + 1) :
         /\ SubSeq(s, j, j + Len(p) - 1) = p
         /\ \A k \in i..(j - 1) : SubSeq(s, k, k + Len(p) - 1) # p
  ELSE 0

NoMatch == [matched |-> FALSE, group |-> ""]

\* /<script\s+id="ID"[^>]*>([\s\S]*?)<\/script>/i tried at position i of
\* html (low is html lower-cased, attr is id="ID" lower-cased).
ScriptTagAt(html, low, attr, i) ==
  LET k == SkipSpaces(low, i + 7)
      m == k + Len(attr)
      g == IndexFrom(low, ">", m)
      c == IF g = 0 THEN 0 ELSE IndexFrom(low, "</script>", g + 1)
  IN IF /\ SubSeq(low, i, i + 6) = "<script"
        /\ k > i + 7
        /\ m - 1 <= Len(low)
        /\ SubSeq(low, k, m - 1) = attr
        /\ g # 0
        /\ c # 0
     THEN [matched |-> TRUE, group |-> SubSeq(html, g + 1, c - 1)]
     ELSE NoMatch

\* html.match of that pattern: the leftmost match.
MatchScriptTag(html, id) ==
  LET low == ToLowerCase(html)
      attr == ToLowerCase("id=\"" \o id \o "\"")
      at(i) == ScriptTagAt(html, low, attr, i)
      starts == {i \in 1..(Len(low) - 6) : at(i).matched}
  IN IF starts = {} THEN NoMatch
     ELSE at(CHOOSE i \in starts : \A j \in starts : i <= j)

\* What may stand between the literal and </script>: `;?\s*` in the
\* window.__NUXT__ pattern (spaceFirst = FALSE), `\s*;?\s*` in the
\* alternative one.
AssignmentEndsAt(low, q, spaceFirst) ==
  LET a == IF spaceFirst THEN SkipSpaces(low, q + 1) ELSE q + 1
      b == IF a <= Len(low) /\ CharAt(low, a) = ";" THEN a + 1 ELSE a
      c == SkipSpaces(low, b)
  IN /\ c + 8 <= Len(low)
     /\ SubSeq(low, c, c + 8) = "</script>"

\* /NAME\s*=\s*(\{[\s\S]*?\})...<\/script>/i tried at position i.
AssignmentAt(html, low, name, spaceFirst, i) ==
  LET j == SkipSpaces(low, i + Len(name))
      k == SkipSpaces(low, j + 1)
      ends == {q \in (k + 1)..Len(low) :
                 CharAt(low, q) = "}" /\ AssignmentEndsAt(low, q, spaceFirst)}
  IN IF /\ i + Len(name) - 1 <= Len(low)
        /\ SubSeq(low, i, i + Len(name) - 1) = name
        /\ j <= Len(low) /\ CharAt(low, j) = "="
        /\ k <= Len(low) /\ CharAt(low, k) = "{"
        /\ ends # {}
     THEN [matched |-> TRUE,
           group |-> SubSeq(html, k, CHOOSE q \in ends : \A r \in ends : q <= r)]
     ELSE NoMatch

MatchAssignment(html, name, spaceFirst) ==
  LET low == ToLowerCase(html)
      at(i) == AssignmentAt(html, low, ToLowerCase(name), spaceFirst, i)
      starts == {i \in 1..Len(low) : at(i).matched}
  IN IF starts = {} THEN NoMatch
     ELSE at(CHOOSE i \in starts : \A j \in starts : i <= j)

\* The object literals of this model and what `new Function('return ' +
\* literal)()` returns for them; evaluating any other literal of the model
\* throws.
StateLiteral == "{state:{user:1}}"

BrokenLiteral == "{state:{user:}}"

JSLiterals ==
  StateLiteral :> JObj(<<"state">>, <<JObj(<<"user">>, <<JNum("1")>>)>>)

\* try { return new Function(...)() } catch { return null }
EvalLiteral(text) ==
  IF text \in DOMAIN JSLiterals THEN JSLiterals[text] ELSE JNull

extractNextData(html) ==
  LET match == MatchScriptTag(html, "__NEXT_DATA__") IN
  IF match.matched /\ match.group # "" THEN safeJsonParse(match.group)
  ELSE JNull

extractNuxtData(html) ==
  LET nuxt3Match == MatchScriptTag(html, "__NUXT_DATA__")
      nuxt2Match == MatchAssignment(html, "window.__NUXT__", FALSE)
      altMatch == MatchAssignment(html, "__NUXT__", TRUE)
  IN IF nuxt3Match.matched /\ nuxt3Match.group # ""
     THEN safeJsonParse(nuxt3Match.group)
     ELSE IF nuxt2Match.matched /\ nuxt2Match.group # ""
     THEN EvalLiteral(nuxt2Match.group)
     ELSE IF altMatch.matched /\ altMatch.group # ""
     THEN EvalLiteral(altMatch.group)
     ELSE JNull

RECURSIVE RemoveElements(_, _, _)
\* s.replace(/<TAG[\s\S]*?<\/TAG>/gi, ''): open is "<tag", close "</tag>".
RemoveElements(s, open, close) ==
  LET low == ToLowerCase(s)
      i == IndexFrom(low, open, 1)
      c == IF i = 0 THEN 0 ELSE IndexFrom(low, close, i + Len(open))
  IN IF i = 0 \/ c = 0 THEN s
     ELSE SubSeq(s, 1, i - 1)
          \o RemoveElements(SubSeq(s, c + Len(close), Len(s)), open, close)

RECURSIVE ReplaceTags(_)
\* s.replace(/<[^>]+>/g, ' ')
ReplaceTags(s) ==
  LET i == IndexFrom(s, "<", 1)
      g == IF i = 0 THEN 0 ELSE IndexFrom(s, ">", i + 1)
  IN IF i = 0 \/ g = 0 THEN s
     ELSE IF g = i + 1
     THEN SubSeq(s, 1, i) \o ReplaceTags(SubSeq(s, i + 1, Len(s)))
     ELSE SubSeq(s, 1, i - 1) \o " " \o ReplaceTags(SubSeq(s, g + 1, Len(s)))

\* s.replace(/\s+/g, ' '): the first character of a run of white space
\* becomes a blank, the others go.
CollapseSpaces(s) ==
  Gather([i \in 1..Len(s) |->
            IF ~IsSpace(CharAt(s, i)) THEN CharAt(s, i)
            ELSE IF i > 1 /\ IsSpace(CharAt(s, i - 1)) THEN "" ELSE " "],
         1, Len(s))

HtmlExcerptLength == 1000

TextExcerptLength == 500

\* s.length > n ? s.substring(0, n) + '...' : s
Excerpt(s, n) == IF Len(s) > n THEN SubSeq(s, 1, n) \o "..." ELSE s

processHtmlFragment(html) ==
  LET textContent ==
        Trim(CollapseSpaces(ReplaceTags(
          RemoveElements(RemoveElements(html, "<script", "</script>"),
                         "<style", "</style>"))))
  IN JObj(<<"html", "textContent">>,
          <<JStr(Excerpt(html, HtmlExcerptLength)),
            JStr(Excerpt(textContent, TextExcerptLength))>>)

\* An XHRCapture: the request, and the response if one was attached.
CapturedRequest(url, method, resourceType) ==
  [url |-> url, method |-> method, resourceType |-> resourceType]

CapturedResponse(url, contentType, body) ==
  [defined |-> TRUE, url |-> url, contentType |-> contentType, body |-> body]

NoCapturedResponse ==
  [defined |-> FALSE, url |-> "", contentType |-> Undefined, body |-> Undefined]

XHRCapture(request, response) == [request |-> request, response |-> response]

\* `x || ''`
OrEmpty(x) == IF x.defined THEN x.text ELSE ""

\* One pass of the loop of analyzeXHRRequests: the DetectedAPI pushed for
\* xhr, if any.
Detect(xhr) ==
  LET contentType == OrEmpty(xhr.response.contentType)
      url == xhr.response.url
      category == getContentCategory(contentType)
      body == xhr.response.body.text
      data == CASE category = "json" -> safeJsonParse(body)
                [] category = "xml" -> xmlToJson(body)
                [] OTHER -> processHtmlFragment(body)
      api == [url |-> xhr.request.url, method |-> xhr.request.method,
              category |-> CASE category = "json" ->
                                  IF isGraphQLEndpoint(url) \/ isGraphQLResponse(data)
                                  THEN "graphql" ELSE "json-api"
                             [] category = "xml" -> "xml-api"
                             [] OTHER -> "html-api",
              data |-> data]
  IN IF ~xhr.response.defined \/ xhr.response.body \in {Undefined, Str("")} THEN <<>>
     ELSE IF ~isCoreDataRequest(url, contentType, xhr.request.resourceType,
                                xhr.response.body) THEN <<>>
     ELSE IF category \in {"json", "xml"} /\ data = JNull THEN <<>>
     ELSE IF category \notin {"json", "xml", "html"} THEN <<>>
     ELSE <<api>>

RECURSIVE analyzeXHRRequests(_)
analyzeXHRRequests(xhrRequests) ==
  IF xhrRequests = <<>> THEN <<>>
  ELSE Detect(Head(xhrRequests)) \o analyzeXHRRequests(Tail(xhrRequests))

\* Object.entries(counts): the categories in the order counts lists them.
APICategories == <<"json-api", "graphql", "xml-api", "html-api">>

Count(apis, category) ==
  Cardinality({i \in 1..Len(apis) : apis[i].category = category})

NoEmbeddedData == [defined |-> FALSE, category |-> "", data |-> JUndefined]

EmbeddedData(category, data) ==
  [defined |-> TRUE, category |-> category, data |-> data]

RECURSIVE MostCommonLastWins(_, _, _)
MostCommonLastWins(apis, i, max) ==
  IF i > Len(APICategories) THEN max
  ELSE MostCommonLastWins(apis, i + 1,
         IF Count(apis, APICategories[i]) >= max.count
         THEN [type |-> APICategories[i], count |-> Count(apis, APICategories[i])]
         ELSE max)

RECURSIVE MostCommon(_, _, _)
\* The loop over Object.entries(counts) from entry i on, with the running
\* maximum.
MostCommon(apis, i, max) ==
  IF i > Len(APICategories) THEN max
  ELSE MostCommon(apis, i + 1,
         IF Count(apis, APICategories[i]) > max.count
         THEN [type |-> APICategories[i], count |-> Count(apis, APICategories[i])]
         ELSE max)

Decision(source, confidence) == [source |-> source, confidence |-> confidence]

\* What determinePrimarySource does once no embedded rule has returned.
ByTalliesIgnoresEmbedded(apis, embeddedData) ==
  LET max == MostCommon(apis, 1, [type |-> "json-api", count |-> 0]) IN
  IF Len(apis) = 0 THEN Decision("ssr-only", "medium")
  ELSE IF Count(apis, "graphql") > 0
  THEN Decision("graphql", IF Count(apis, "graphql") > 1 THEN "high" ELSE "medium")
  ELSE Decision(max.type,
                IF max.count >= 3 THEN "high"
                ELSE IF max.count >= 1 THEN "medium" ELSE "low")

ByTalliesMostCommonFirst(apis, embeddedData) ==
  LET max == MostCommon(apis, 1, [type |-> "json-api", count |-> 0]) IN
  IF Len(apis) = 0
  THEN IF embeddedData.defined THEN Decision(embeddedData.category, "medium")
       ELSE Decision("ssr-only", "medium")
  ELSE Decision(max.type,
                IF max.count >= 3 THEN "high"
                ELSE IF max.count >= 1 THEN "medium" ELSE "low")

ByTalliesMediumFromTwo(apis, embeddedData) ==
  LET max == MostCommon(apis, 1, [type |-> "json-api", count |-> 0]) IN
  IF Len(apis) = 0
  THEN IF embeddedData.defined THEN Decision(embeddedData.category, "medium")
       ELSE Decision("ssr-only", "medium")
  ELSE IF Count(apis, "graphql") > 0
  THEN Decision("graphql", IF Count(apis, "graphql") > 1 THEN "high" ELSE "medium")
  ELSE Decision(max.type,
                IF max.count >= 3 THEN "high"
                ELSE IF max.count >= 2 THEN "medium" ELSE "low")

ByTallies(apis, embeddedData) ==
  LET max == MostCommon(apis, 1, [type |-> "json-api", count |-> 0]) IN
  IF Len(apis) = 0
  THEN IF embeddedData.defined THEN Decision(embeddedData.category, "medium")
       ELSE Decision("ssr-only", "medium")
  ELSE IF Count(apis, "graphql") > 0
  THEN Decision("graphql", IF Count(apis, "graphql") > 1 THEN "high" ELSE "medium")
  ELSE Decision(max.type,
                IF max.count >= 3 THEN "high"
                ELSE IF max.count >= 1 THEN "medium" ELSE "low")

determinePrimarySourceTalliesFirst(apis, embeddedData) ==
  IF Len(apis) > 0 THEN ByTallies(apis, embeddedData)
  ELSE IF embeddedData.defined THEN Decision(embeddedData.category, "high")
  ELSE ByTallies(apis, embeddedData)

determinePrimarySource(apis, embeddedData) ==
  LET pageProps == Get(Get(embeddedData.data, "props"), "pageProps") IN
  IF /\ embeddedData.defined
     /\ embeddedData.category = "nextjs-embedded"
     /\ Truthy(pageProps)
     /\ KeyCount(pageProps) > 0
  THEN Decision("nextjs-embedded", "high")
  ELSE IF embeddedData.defined /\ embeddedData.category = "nuxt-embedded"
  THEN Decision("nuxt-embedded", "high")
  ELSE ByTallies(apis, embeddedData)

\* The embedded data analyzePageData finds in html.
FindEmbeddedData(html) ==
  LET Found(nextData, nuxtData) ==
        IF Truthy(nextData) THEN EmbeddedData("nextjs-embedded", nextData)
        ELSE IF Truthy(nuxtData) THEN EmbeddedData("nuxt-embedded", nuxtData)
        ELSE NoEmbeddedData
  IN Found(extractNextData(html), extractNuxtData(html))

analyzePageData(html, xhrRequests, title) ==
  LET Decided(embeddedData, detectedAPIs, decision) ==
        [detectedAPIs |-> detectedAPIs,
         embeddedData |-> embeddedData,
         primaryDataSource |-> decision.source,
         confidence |-> decision.confidence,
         includeHtml |-> decision.source = "ssr-only"]
      Analysed(embeddedData, detectedAPIs) ==
        Decided(embeddedData, detectedAPIs,
                determinePrimarySource(detectedAPIs, embeddedData))
  IN Analysed(FindEmbeddedData(html), analyzeXHRRequests(xhrRequests))

\* POST /analyze and GET /analyze once fetchPage has resolved: the analysis
\* of the capture and the AnalyzeResult sent (res.json leaves out the
\* fields that are undefined).
AnalyzeResult(fetchResult) ==
  LET Result(analysis) ==
        [analysis |-> analysis,
         primaryDataSource |-> analysis.primaryDataSource,
         confidence |-> analysis.confidence,
         detectedAPIs |-> analysis.detectedAPIs,
         embeddedData |-> analysis.embeddedData,
         html |-> IF analysis.includeHtml THEN Str(fetchResult.html) ELSE Undefined,
         title |-> fetchResult.title]
  IN Result(analyzePageData(fetchResult.html, fetchResult.xhrRequests,
                            fetchResult.title))

\* The pages analysed: without embedded data; with the first framework's
\* script tag, its pageProps filled, empty, or its JSON broken; with the
\* second framework's script tag or its inline assignment; and with both
\* frameworks' data; and with the second framework's script tag broken
\* before a sound inline assignment.
ScriptTag(id, text) ==
  "<script id=\"" \o id \o "\" type=\"application/json\">" \o text \o "</script>"

PlainHtml == "<h1>Products</h1><p>Widget</p>"

NextHtml == PlainHtml \o ScriptTag("__NEXT_DATA__", EmbeddedPageText)

NextEmptyHtml == PlainHtml \o ScriptTag("__NEXT_DATA__", EmbeddedEmptyText)

NuxtHtml == PlainHtml \o ScriptTag("__NUXT_DATA__", EmbeddedStateText)

NuxtInlineHtml ==
  PlainHtml \o "<script>window.__NUXT__=" \o StateLiteral \o ";</script>"

NextEmptyNuxtHtml == NextEmptyHtml \o ScriptTag("__NUXT_DATA__", EmbeddedStateText)

NextBrokenNuxtHtml ==
  PlainHtml \o ScriptTag("__NEXT_DATA__", "{\"props\":")
            \o ScriptTag("__NUXT_DATA__", EmbeddedStateText)

NuxtBrokenInlineHtml ==
  PlainHtml \o ScriptTag("__NUXT_DATA__", "[{\"state\":")
            \o "<script>window.__NUXT__=" \o StateLiteral \o ";</script>"

Htmls ==
  {PlainHtml, NextHtml, NextEmptyHtml, NuxtHtml, NuxtInlineHtml,
   NextEmptyNuxtHtml, NextBrokenNuxtHtml, NuxtBrokenInlineHtml}

\* The exchanges of a capture: one of each category the analyzer tells
\* apart, and one in plain text.
Exchange(url, method, resourceType, contentType, body) ==
  XHRCapture(CapturedRequest(url, method, resourceType),
             CapturedResponse(url, Str(contentType), Str(body)))

JsonExchange ==
  Exchange("https://a.io/items", "GET", "xhr", "application/json", CatalogBody)

GraphqlExchange ==
  Exchange("https://a.io/graphql", "POST", "fetch", "application/json", GraphBody)

XmlExchange ==
  Exchange("https://a.io/feed", "GET", "xhr", "application/xml", FeedBody)

FragmentBody ==
  "<div class=\"list\"><script>x()</script><p>Widget</p>\n<p>Gadget</p></div>"

HtmlExchange ==
  Exchange("https://a.io/list", "GET", "xhr", "text/html; charset=utf-8",
           FragmentBody)

NoteBody == "Widget and Gadget are in stock; nothing else is, for now."

TextExchange ==
  Exchange("https://a.io/note", "GET", "fetch", "text/plain", NoteBody)

TallyExchanges ==
  <<JsonExchange, GraphqlExchange, XmlExchange, HtmlExchange, TextExchange>>

\* Exchanges the analyzer passes over or tells apart by their content: no
\* response, no body, a trivial body, an analytics host, a kind other than
\* xhr/fetch, JSON or XML that does not parse, JSON that is no object, and
\* GraphQL known by its response only.
OtherExchanges ==
  {XHRCapture(CapturedRequest("https://a.io/items", "GET", "xhr"), NoCapturedResponse),
   XHRCapture(CapturedRequest("https://a.io/items", "GET", "xhr"),
              CapturedResponse("https://a.io/items", Str("application/json"), Undefined)),
   XHRCapture(CapturedRequest("https://a.io/items", "GET", "xhr"),
              CapturedResponse("https://a.io/items", Undefined, Str(CatalogBody))),
   Exchange("https://a.io/items", "GET", "xhr", "application/json", WidgetBody),
   Exchange("https://api.segment.io/items", "POST", "xhr", "application/json", CatalogBody),
   Exchange("https://a.io/items", "GET", "script", "application/json", CatalogBody),
   Exchange("https://a.io/items", "GET", "xhr", "application/json", BadJsonBody),
   Exchange("https://a.io/feed", "GET", "xhr", "text/xml", BadXmlBody),
   Exchange("https://a.io/flag", "GET", "xhr", "application/json", FalseBody),
   Exchange("https://a.io/items", "GET", "xhr", "application/json", TypenameBody)}

MaxExchanges == 4     \* exchanges of a capture whose categories are tallied

\* Every tally of up to MaxExchanges of those exchanges, in the order of
\* TallyExchanges and in the reverse order.
Tallies ==
  UNION {{s \in [1..k -> 1..Len(TallyExchanges)] :
            \/ \A i \in 1..(k - 1) : s[i] <= s[i + 1]
            \/ \A i \in 1..(k - 1) : s[i] >= s[i + 1]} : k \in 0..MaxExchanges}

\* Each of the other exchanges alone, and before and after one that is
\* tallied.
Mixed ==
  UNION {{<<o>>, <<o, TallyExchanges[i]>>, <<TallyExchanges[i], o>>} :
           o \in OtherExchanges, i \in 1..Len(TallyExchanges)}

Captures ==
  [html : Htmls,
   xhrRequests : {[i \in 1..Len(s) |-> TallyExchanges[s[i]]] : s \in Tallies}
                   \cup Mixed,
   title : {Str("Products")}]

AnalyzeCalls ==
  {[fn |-> "analyze", fetchResult |-> c, done |-> FALSE,
    out |-> AnalyzeResult([html |-> "", xhrRequests |-> <<>>, title |-> Undefined])] :
     c \in Captures}

InitAnalyze ==
  /\ InitProgram
  /\ apiKey = NoApiKey
  /\ call \in AnalyzeCalls

\* The handler goes on from `await browserManager.fetchPage(...)`.
Analyze ==
  /\ call.fn = "analyze"
  /\ ~call.done
  /\ call' = [call EXCEPT !.done = TRUE, !.out = AnalyzeResult(call.fetchResult)]
  /\ UNCHANGED <<progVars, apiKey, inbound>>

NextAnalyze == Analyze

SpecAnalyze == InitAnalyze /\ [][NextAnalyze]_vars

\* --------------------------------------------------------- JSON schemas
\* A JSONSchema object: `type` ("" when the field is absent), `properties`
\* (keys in insertion order and their schemas, when the field is present),
\* `items` (no or one schema), `required`, `examples` and `oneOf`.
JSONSchema(type, hasProperties, keys, props, items, required, examples, oneOf) ==
  [type |-> type, hasProperties |-> hasProperties, keys |-> keys, props |-> props,
   items |-> items, required |-> required, examples |-> examples, oneOf |-> oneOf]

\* {}
EmptySchema == JSONSchema("", FALSE, <<>>, <<>>, <<>>, <<>>, <<>>, <<>>)

\* { type } and { type, examples: [value] }
TypeSchema(type) == JSONSchema(type, FALSE, <<>>, <<>>, <<>>, <<>>, <<>>, <<>>)

ExampleSchema(type, value) ==
  JSONSchema(type, FALSE, <<>>, <<>>, <<>>, <<>>, <<value>>, <<>>)

\* { type: 'object', properties, required, additionalProperties: true }
ObjectSchema(keys, props, required) ==
  JSONSchema("object", TRUE, keys, props, <<>>, required, <<>>, <<>>)

\* { type: 'array', items }
ArraySchema(items) ==
  JSONSchema("array", FALSE, <<>>, <<>>, <<items>>, <<>>, <<>>, <<>>)

\* { oneOf: schemas }
OneOfSchema(schemas) ==
  JSONSchema("", FALSE, <<>>, <<>>, <<>>, <<>>, <<>>, schemas)

\* Number.isInteger of a number parsed from its decimal text.
IsInteger(a) == ~Includes(a, ".") /\ a # "NaN"

getType(value) ==
  CASE value.t = "null" -> "null"
    [] value.t = "array" -> "array"
    [] value.t = "number" -> IF IsInteger(value.a) THEN "integer" ELSE "number"
    [] OTHER -> value.t

\* The place of a key among keys, 0 if it is not one of them.
KeyIndex(keys, key) ==
  IF \E i \in 1..Len(keys) : keys[i] = key
  THEN CHOOSE i \in 1..Len(keys) : keys[i] = key
  ELSE 0

\* addSchema with no set of seen types.
AddSchemasKeepingAll(branches, i, schemas) == branches

RECURSIVE AddSchemas(_, _, _)
\* addSchema over the branches in turn: a branch is kept unless its type
\* (`schema.type || 'unknown'`) has been seen.
AddSchemas(branches, i, schemas) ==
  IF i > Len(branches) THEN schemas
  ELSE LET t == IF branches[i].type = "" THEN "unknown" ELSE branches[i].type
           seen == \E j \in 1..Len(schemas) :
                     (IF schemas[j].type = "" THEN "unknown" ELSE schemas[j].type) = t
       IN AddSchemas(branches, i + 1,
                     IF seen THEN schemas ELSE Append(schemas, branches[i]))


\* `a.oneOf ? a.oneOf.forEach(addSchema) : addSchema(a)`
Branches(s) == IF s.oneOf # <<>> THEN s.oneOf ELSE <<s>>

RECURSIVE mergeSchemas(_, _)
RECURSIVE MergeProperties(_, _, _, _)
\* The loop over Object.entries(b.properties) of mergeSchemas.
MergeProperties(keys, props, b, i) ==
  IF i > Len(b.keys) THEN ObjectSchema(keys, props, <<>>)
  ELSE LET at == KeyIndex(keys, b.keys[i]) IN
       IF at > 0
       THEN MergeProperties(keys,
                            [props EXCEPT ![at] = mergeSchemas(props[at], b.props[i])],
                            b, i + 1)
       ELSE MergeProperties(Append(keys, b.keys[i]), Append(props, b.props[i]),
                            b, i + 1)

mergeSchemas(a, b) ==
  IF a.type = b.type
  THEN IF a.type = "object" /\ a.hasProperties /\ b.hasProperties
       THEN MergeProperties(a.keys, a.props, b, 1)
       ELSE a
  ELSE LET schemas == AddSchemas(Branches(a) \o Branches(b), 1, <<>>) IN
       IF Len(schemas) = 1 THEN schemas[1] ELSE OneOfSchema(schemas)

MaxExamples == 3

MaxDepth == 10

ExampleLength == 100

RECURSIVE inferJsonSchema(_, _, _)
RECURSIVE InferItems(_, _, _, _, _)
\* The loop over sampleItems of inferJsonSchema; itemSchema is <<>> for
\* null.
InferItems(items, i, itemSchema, maxExamples, maxDepth) ==
  IF i > Len(items) \/ i > maxExamples THEN itemSchema
  ELSE LET schema == inferJsonSchema(items[i], maxExamples, maxDepth - 1) IN
       InferItems(items, i + 1,
                  IF itemSchema = <<>> THEN <<schema>>
                  ELSE <<mergeSchemas(itemSchema[1], schema)>>,
                  maxExamples, maxDepth)

inferJsonSchema(value, maxExamples, maxDepth) ==
  LET type == getType(value) IN
  CASE maxDepth <= 0 -> TypeSchema("object")
    [] maxDepth > 0 /\ type = "null" -> TypeSchema("null")
    [] maxDepth > 0 /\ type = "string" ->
         ExampleSchema("string",
                       IF Len(value.a) > ExampleLength
                       THEN JStr(SubSeq(value.a, 1, ExampleLength) \o "...")
                       ELSE value)
    [] maxDepth > 0 /\ type \in {"number", "integer", "boolean"} ->
         ExampleSchema(type, value)
    [] maxDepth > 0 /\ type = "array" ->
         LET itemSchema == InferItems(value.kids, 1, <<>>, maxExamples, maxDepth) IN
         ArraySchema(IF itemSchema = <<>> THEN EmptySchema ELSE itemSchema[1])
    [] maxDepth > 0 /\ type = "object" ->
         ObjectSchema(value.keys,
                      [i \in 1..Len(value.keys) |->
                         inferJsonSchema(value.kids[i], maxExamples, maxDepth - 1)],
                      SelectSeq(value.keys,
                                LAMBDA key : Get(value, key).t \notin {"null", "undefined"}))
    [] OTHER -> TypeSchema("unknown")

\* ---------------------------------------------------------- schema spec
\* Two arrays are inferred item by item, as the loop of inferJsonSchema
\* does, and the two item schemas reached are then merged in both orders.
Tagged == JObj(<<"id", "tag">>, <<JStr("x"), JNull>>)

Items ==
  {JNum("1"), JNum("9.99"), JStr("a"), JNull, Widget, Tagged,
   JArr(<<JNum("1"), JStr("a")>>)}

Arrays == {1, 2}

MaxItems == 4

SchemaCall ==
  [fn |-> "schema", itemSchema |-> [k \in Arrays |-> <<>>],
   taken |-> [k \in Arrays |-> 0], done |-> FALSE,
   ab |-> EmptySchema, ba |-> EmptySchema]

InitSchema ==
  /\ InitProgram
  /\ apiKey = NoApiKey
  /\ call = SchemaCall

\* One pass of the loop over sampleItems, on array k.
InferItem(k, item) ==
  /\ call.fn = "schema"
  /\ ~call.done
  /\ call.taken[k] < MaxExamples
  /\ call.taken[1] + call.taken[2] < MaxItems
  /\ LET schema == inferJsonSchema(item, MaxExamples, MaxDepth - 1) IN
     call' = [call EXCEPT
                !.taken[k] = @ + 1,
                !.itemSchema[k] = IF @ = <<>> THEN <<schema>>
                                  ELSE <<mergeSchemas(@[1], schema)>>]
  /\ UNCHANGED <<progVars, apiKey, inbound>>

\* mergeSchemas on the two item schemas, in both orders.
MergeBothWays ==
  /\ call.fn = "schema"
  /\ ~call.done
  /\ \A k \in Arrays : call.itemSchema[k] # <<>>
  /\ call' = [call EXCEPT
                !.done = TRUE,
                !.ab = mergeSchemas(call.itemSchema[1][1], call.itemSchema[2][1]),
                !.ba = mergeSchemas(call.itemSchema[2][1], call.itemSchema[1][1])]
  /\ UNCHANGED <<progVars, apiKey, inbound>>

NextSchema ==
  \/ \E k \in Arrays, item \in Items : InferItem(k, item)
  \/ MergeBothWays

SpecSchema == InitSchema /\ [][NextSchema]_vars

\* ------------------------------------------------------- authentication
\* An HTTP request as the middleware reads it: req.path and the two headers
\* (a header that was not sent is "": `authHeader?.startsWith(...)` is then
\* not true and `xApiKey !== apiKey` holds of a configured key, as for
\* undefined).
Inbound(path, authorization, xApiKey) ==
  [path |-> path, authorization |-> authorization, xApiKey |-> xApiKey]

\* authHeader.slice(7)
Slice(s, from) == IF from >= Len(s) THEN "" ELSE SubSeq(s, from + 1, Len(s))

\* The middleware that lets any Bearer token through.
MiddlewareAnyBearer(key, req) ==
  IF req.path = "/health" THEN "next"
  ELSE IF key = NoApiKey THEN "next"
  ELSE IF StartsWith(req.authorization, "Bearer ") \/ req.xApiKey = key
  THEN "next"
  ELSE "401"

\* The API key middleware, with API_KEY = key: next(), or the 401 answer.
Middleware(key, req) ==
  IF req.path = "/health" THEN "next"
  ELSE IF key = NoApiKey THEN "next"
  ELSE LET providedKey == IF StartsWith(req.authorization, "Bearer ")
                          THEN Slice(req.authorization, 7)
                          ELSE req.xApiKey
       IN IF providedKey # key THEN "401" ELSE "next"

Secret == "s3cret"

Paths == {"/health", "/fetch", "/missing"}

AuthorizationHeaders ==
  {"", "Bearer " \o Secret, "Bearer wrong", "Bearer ", "bearer " \o Secret,
   "Basic " \o Secret, Secret}

ApiKeyHeaders == {"", Secret, "wrong"}

Inbounds ==
  {Inbound(path, authorization, xApiKey) :
     path \in Paths, authorization \in AuthorizationHeaders,
     xApiKey \in ApiKeyHeaders}

\* Two bodies /fetch accepts and one it answers 400.
PlainBody ==
  [urlValid |-> TRUE, waitUntil |-> "absent", timeout |-> Absent,
   networkIdleTimeout |-> Absent, waitForSelector |-> FALSE,
   additionalWaitMs |-> Absent]

AuthBodies ==
  {PlainBody,
   [PlainBody EXCEPT !.urlValid = FALSE],
   [PlainBody EXCEPT !.waitForSelector = TRUE, !.additionalWaitMs = Num(500)]}

InitAuth ==
  /\ InitProgram
  /\ apiKey \in {NoApiKey, Secret}
  /\ call = NoCall

\* One request through the middleware and, past it, the route: /health
\* answers 200, /fetch runs its handler, no other path has a route.
Serve(v, req, body) ==
  /\ ~exited
  /\ http[v].status = "none"
  /\ inbound[v] = NoInbound
  /\ inbound' = [inbound EXCEPT ![v] = req]
  /\ IF Middleware(apiKey, req) = "401"
     THEN /\ http' = [http EXCEPT ![v].status = "401"]
          /\ UNCHANGED <<mgrVars, exited, startup, closer, visit, rec, apiKey, call>>
     ELSE IF req.path = "/fetch"
     THEN HttpFetch(v, body)
     ELSE /\ http' = [http EXCEPT ![v].status =
                        IF req.path = "/health" THEN "200" ELSE "404"]
          /\ UNCHANGED <<mgrVars, exited, startup, closer, visit, rec, apiKey, call>>

\* One HTTP request, with or without a configured key, and the visit it
\* starts if it gets that far.
NextAuth ==
  \/ Launching
  \/ \E req \in Inbounds, body \in AuthBodies : Serve(FirstVisit, req, body)
  \/ CoreSteps(FirstVisit, {TRUE}, {"response", "timeout"})
  \/ WaitSteps(FirstVisit, {TRUE})
  \/ HttpRespond(FirstVisit)

SpecAuth == InitAuth /\ [][NextAuth]_vars

\* ------------------------------------------------- claims on the manager
\* No browser has come to exist yet: no launch has resolved.
NoBrowserYet == \A l \in Launches : proc[l] \notin {"open", "closing", "closed"}

\* The promises awaited by the initialize()/fetchPage() calls made so far.
AwaitedPromises ==
  {visit[v].awaits : v \in {u \in Visits : visit[u].pc # "idle"}}
    \cup (IF startup.pc # "idle" THEN {startup.awaits} ELSE {})

\* C1: while no browser exists yet, however many initialize()/fetchPage()
\* calls overlap, one launch has been started, every caller awaits the
\* promise of that launch, and every caller that has resumed observed the
\* outcome of that promise.
C1_SingleInFlightInit ==
  NoBrowserYet =>
    /\ launchCount <= 1
    /\ AwaitedPromises \subseteq {1}
    /\ startup.pc = "done" => startup.outcome = promise[1]
    /\ \A v \in Visits :
         visit[v].initOutcome # "none" => visit[v].initOutcome = promise[1]

\* Two calls overlap on the one launch in flight.
C1_Witness ==
  /\ NoBrowserYet
  /\ launchCount = 1
  /\ startup.pc = "awaitInit"
  /\ visit[1].pc = "awaitInit"
  /\ startup.awaits = visit[1].awaits

\* A browser process that runs: spawned by a launch and not closed.
Running(l) == proc[l] \in {"spawned", "open", "closing"}

\* C7: when the process has exited on a signal, no launched browser process
\* is still running.
C7_ExitAfterBrowsersClosed ==
  exited => \A l \in Launches : ~Running(l)

\* C8: when a close() that closed the shared browser completes, the manager
\* holds neither a browser nor an initialization; an initialize()/fetchPage()
\* call made in that state starts exactly one launch, of a new process, and
\* awaits it; and the browser a visit goes on to use is the one the manager
\* holds then, never a closed one.
C8_Step ==
  /\ \A c \in Closers :
       closer[c].pc = "awaitClose" /\ closer'[c].pc = "done" =>
         browser' = 0 /\ initPromise' = 0
  /\ \A v \in Visits :
       /\ visit[v].pc = "idle" /\ visit'[v].pc # "idle"
            /\ browser = 0 /\ initPromise = 0 =>
              /\ launchCount' = launchCount + 1
              /\ proc[launchCount'] = "none"
              /\ proc'[launchCount'] = "starting"
              /\ visit'[v].awaits = launchCount'
              /\ initPromise' = launchCount'
       /\ visit[v].browser = 0 /\ visit'[v].browser # 0 =>
              /\ visit'[v].browser = browser
              /\ proc[browser] # "closed"

C8_ReinitAfterClose == [][C8_Step]_vars

\* A visit called after the browser was closed has run to its return on the
\* browser of a second launch.
C8_Witness ==
  /\ proc[1] = "closed"
  /\ visit[1].pc = "returned"
  /\ visit[1].awaits = 2
  /\ visit[1].browser = 2

\* The launches in flight: chromium.launch() was called and has not settled.
InFlight == {l \in Launches : proc[l] \in {"starting", "spawned"}}

\* C24: under every interleaving of initialize(), fetchPage() and close()
\* calls, at most one browser launch is in flight, and every browser process
\* whose launch resolved is the one the manager references or has been closed.
C24_OneLaunchNoOrphan ==
  /\ Cardinality(InFlight) <= 1
  /\ \A l \in Launches : proc[l] \in {"open", "closing"} => browser = l

\* C25: when a launch started by initialize() fails, its rejected promise
\* is the one the manager keeps, and from then on no step resets it (no
\* close() either) or starts another launch; every initialize() or
\* fetchPage() call made then awaits that promise, and every such call that
\* resumes fails with its error.
C25_Step ==
  \A l \in Launches :
    /\ promise[l] # "rejected" /\ promise'[l] = "rejected" => initPromise' = l
    /\ promise[l] = "rejected" /\ initPromise = l =>
         /\ initPromise' = l
         /\ launchCount' = launchCount
         /\ startup.pc = "idle" /\ startup'.pc # "idle" => startup'.awaits = l
         /\ \A v \in Visits :
              /\ visit[v].pc = "idle" /\ visit'[v].pc # "idle" =>
                   visit'[v].pc = "awaitInit" /\ visit'[v].awaits = l
              /\ visit[v].pc = "awaitInit" /\ visit[v].awaits = l
                   /\ visit'[v].pc # "awaitInit" =>
                   visit'[v].pc = "failed" /\ visit'[v].initOutcome = "rejected"

C25_RejectedInitIsKept == [][C25_Step]_vars

\* --------------------------------------------------- claims on one visit
Settled(v) == visit[v].pc \in {"returned", "failed"}

\* C2: when a fetchPage call settles, by return or by any error, the page
\* and the context it opened are closed; and no step of a visit closes the
\* shared browser.
C2_Step ==
  /\ \A v \in Visits :
       Settled(v)' =>
         /\ visit'[v].page \in {"null", "closed"}
         /\ visit'[v].context \in {"null", "closed"}
  /\ visit' # visit =>
       \A l \in Launches : proc[l] = "open" => proc'[l] = "open"

C2_ReleasedOnEveryPath == [][C2_Step]_vars

\* A visit that failed in its snapshot has closed its page and its context,
\* and its browser is open.
C2_Witness ==
  \E v \in Visits :
    /\ visit[v].pc = "failed"
    /\ visit[v].pending = "SnapshotError"
    /\ visit[v].page = "closed"
    /\ visit[v].context = "closed"
    /\ proc[visit[v].browser] = "open"

\* The network-idle attempt of the visit timed out.
IdleTimedOut(v) ==
  visit[v].req.waitUntil = "networkidle" /\ visit[v].navOutcome = "timeout"

\* C3 as stated: once the network-idle attempt has timed out the visit does
\* not fail.
C3_NeverFailsAfterIdleTimeout ==
  \A v \in Visits : IdleTimedOut(v) => visit[v].pc # "failed"

\* C3 as amended: once the network-idle attempt has timed out,
\* networkIdleReached is false, one DOM-ready wait is made, with budget
\* timeout - networkIdleTimeout, the visit goes on to the selector, settle
\* and snapshot steps whether or not that wait failed, only an error of the
\* settle delay or of the snapshot fails it, and the capture it returns has
\* networkIdleReached = false and the HTML the page held at the snapshot.
C3_State ==
  \A v \in Visits :
    IdleTimedOut(v) =>
      /\ ~visit[v].networkIdleReached
      /\ visit[v].fallbackWaits = 1
      /\ visit[v].fallbackBudget =
           visit[v].req.timeout - visit[v].req.networkIdleTimeout
      /\ visit[v].pending \in {"none", "return", "SettleError", "SnapshotError"}
      /\ visit[v].pc = "returned" => ~visit[v].capNetworkIdleReached

C3_Step ==
  \A v \in Visits :
    /\ visit[v].pc = "fallback" /\ visit'[v].pc # "fallback" =>
         visit'[v].pc = IF visit[v].req.waitForSelector THEN "selector"
                        ELSE IF visit[v].req.additionalWaitMs > 0 THEN "settle"
                        ELSE "snapshot"
    /\ IdleTimedOut(v) /\ visit[v].pc = "snapshot" /\ visit'[v].pending = "return" =>
         visit'[v].capHtml = visit[v].dom

C3_IdleTimeoutIsSoft == []C3_State /\ [][C3_Step]_vars

\* A visit whose network-idle attempt timed out has returned its capture,
\* with the HTML of a page that had changed since the navigation began.
C3_Witness ==
  \E v \in Visits :
    /\ IdleTimedOut(v)
    /\ visit[v].pc = "returned"
    /\ ~visit[v].capNetworkIdleReached
    /\ visit[v].capHtml > 0

\* The navigation failed for good: an error that is no timeout, or a
\* timeout under the load or domcontentloaded strategy.
FatalNavigation(v) ==
  \/ visit[v].navOutcome = "error"
  \/ visit[v].navOutcome = "timeout" /\ visit[v].req.waitUntil # "networkidle"

\* C4: after a navigation error other than a timeout, under any strategy,
\* and after a navigation timeout under load or domcontentloaded, the visit
\* is on its way out with that error, makes no fallback wait and returns no
\* capture.
C4_FatalNavigationFails ==
  \A v \in Visits :
    FatalNavigation(v) =>
      /\ visit[v].pc \in {"closePage", "closeContext", "failed"}
      /\ visit[v].pending =
           (IF visit[v].navOutcome = "timeout" THEN "TimeoutError"
            ELSE "NavigationError")
      /\ visit[v].fallbackWaits = 0

\* A visit under the load strategy has failed on a navigation timeout.
C4_Witness ==
  \E v \in Visits :
    /\ visit[v].req.waitUntil = "load"
    /\ visit[v].navOutcome = "timeout"
    /\ visit[v].pc = "failed"

\* C9: a returned capture says networkIdleReached only if a wait for
\* network idle completed during the visit.
C9_IdleFlagMeansIdleReached ==
  \A v \in Visits :
    visit[v].pc = "returned" /\ visit[v].capNetworkIdleReached =>
      visit[v].idleWaitOk

\* ----------------------------------------------- claims on the observers
\* C5: once fetchPage has returned its capture, the capture reads as it did
\* when it was returned.
C5_CaptureImmutableAfterReturn ==
  \A v \in Visits :
    visit[v].pc = "returned" => Capture(rec[v]) = rec[v].ret

\* The entry of a key in xhrMap.
Entry(m, key) == m[CHOOSE i \in 1..Len(m) : m[i].key = key]

\* C6: when the body read of a response settles, failed or not, its handler
\* appends the response to allResponses and, for an xhr/fetch response,
\* leaves it attached to the exchange of its key; a failed read leaves the
\* body absent; and the visit is where it was, whichever way the read went.
C6_Step ==
  \A v \in Visits : \A h \in rec[v].handlers :
    h \notin rec'[v].handlers =>
      LET all == rec'[v].allResponses
          res == all[Len(all)]
      IN /\ Len(all) = Len(rec[v].allResponses) + 1
         /\ res.id = h.id /\ res.key = h.key /\ res.kind = h.kind
         /\ res.size = "absent" => res.body = "absent"
         /\ h.kind \in {"xhr", "fetch"} =>
              /\ MapHas(rec'[v].xhrMap, h.key)
              /\ Entry(rec'[v].xhrMap, h.key).response = res
         /\ visit' = visit

C6_BodyFailureSwallowed == [][C6_Step]_vars

\* The body read of an xhr response failed after the page was closed: the
\* response is recorded and attached, without body.
C6_Witness ==
  \E v \in Visits :
    /\ visit[v].page = "closed"
    /\ \E i \in 1..Len(rec[v].allResponses) :
         LET res == rec[v].allResponses[i] IN
         /\ res.kind = "xhr"
         /\ res.size = "absent" /\ res.body = "absent"
         /\ MapHas(rec[v].xhrMap, res.key)
         /\ Entry(rec[v].xhrMap, res.key).response = res

\* The entries of m under other keys are those of n, in place.
OthersKept(m, n, key) ==
  \A i \in 1..Len(m) : m[i].key # key => (i <= Len(n) /\ n[i] = m[i])

\* C21: after any sequence of request events in one visit, the exchange
\* table holds at most one record per (url, method), created only by
\* requests of kind xhr or fetch; a new xhr/fetch request with a
\* (url, method) already present replaces the record with one whose
\* response half is empty, discarding any response attached before.
C21_State ==
  \A v \in Visits :
    \A i, j \in 1..Len(rec[v].xhrMap) :
      rec[v].xhrMap[i].key = rec[v].xhrMap[j].key => i = j

C21_Step ==
  \A v \in Visits : \A q \in RequestShapes :
    OnRequest(v, q.key, q.kind) =>
      LET old == rec[v].xhrMap
          new == rec'[v].xhrMap
      IN IF q.kind \in {"xhr", "fetch"}
         THEN /\ MapHas(new, q.key)
              /\ Entry(new, q.key).response = NoResponse
              /\ Entry(new, q.key).from = "request"
              /\ OthersKept(old, new, q.key)
              /\ Len(new) = IF MapHas(old, q.key) THEN Len(old) ELSE Len(old) + 1
         ELSE new = old

C21_OneRecordPerKey == []C21_State /\ [][C21_Step]_vars

\* A response was attached to the exchange of a key, and a later request
\* of that key left the exchange without response.
C21_Witness ==
  \E v \in Visits :
    \E i \in 1..Len(rec[v].allResponses) :
      LET res == rec[v].allResponses[i] IN
      /\ res.kind = "xhr"
      /\ MapHas(rec[v].xhrMap, res.key)
      /\ Entry(rec[v].xhrMap, res.key).from = "request"
      /\ Entry(rec[v].xhrMap, res.key).response = NoResponse
      /\ rec[v].handlers = {}

\* C22: when the handler of an xhr/fetch response completes, the record
\* keyed by that response's (url, method) carries that response: it is
\* attached to the existing record if one is present, and otherwise a new
\* record is synthesized from the response's own request; responses of
\* other kinds never create or change an exchange record.
C22_Step ==
  \A v \in Visits : \A h \in rec[v].handlers : \A ok \in BOOLEAN :
    BodyDone(v, h, ok) =>
      LET old == rec[v].xhrMap
          new == rec'[v].xhrMap
      IN IF h.kind \in {"xhr", "fetch"}
         THEN /\ MapHas(new, h.key)
              /\ Entry(new, h.key).response.id = h.id
              /\ Entry(new, h.key).response.key = h.key
              /\ OthersKept(old, new, h.key)
              /\ IF MapHas(old, h.key)
                 THEN /\ Len(new) = Len(old)
                      /\ Entry(new, h.key).from = Entry(old, h.key).from
                 ELSE /\ Len(new) = Len(old) + 1
                      /\ new[Len(new)].key = h.key
                      /\ new[Len(new)].from = "response"
         ELSE new = old

C22_ResponseReachesItsRecord == [][C22_Step]_vars

\* One exchange was observed as a request and waits for its response;
\* another was never observed as a request and was made from its response.
C22_Witness ==
  \E v \in Visits :
    \E i, j \in 1..Len(rec[v].xhrMap) :
      /\ rec[v].xhrMap[i].from = "request"
      /\ rec[v].xhrMap[i].response = NoResponse
      /\ rec[v].xhrMap[j].from = "response"
      /\ rec[v].xhrMap[j].response.kind = "xhr"
      /\ rec[v].xhrMap[j].response.key = rec[v].xhrMap[j].key

\* ------------------------------------------------- claims on the callers
\* C10: every request an HTTP handler hands to fetchPage has
\* networkIdleTimeout <= timeout.
C10_CallerEnforcesBudgetOrder ==
  \A v \in Visits :
    http[v].status \in {"pending", "200", "500"} =>
      visit[v].req.networkIdleTimeout <= visit[v].req.timeout

\* ------------------------------------------------- claims on the filter
\* The six exclusion conditions, stated on the arguments directly.
\* Hosts that are a listed analytics domain or a subdomain of one.
C11_AnalyticsHost ==
  call.url \in {"https://www.google-analytics.com/v1/products",
                "https://WWW.Google-Analytics.COM/v1/products",
                "https://google-analytics.com/v1/products",
                "https://sentry.io:8443/v1/products"}

\* Path + query matching a tracking pattern.
C11_TrackingPath ==
  call.url \in {"https://api.example.com/collect",
                "https://api.example.com/api/Events?x=1",
                "https://api.example.com/img.png?a=1&utm_source=x"}

\* Content type of the json, xml, html or text/plain family.
C11_DataContentType ==
  call.contentType \in {"application/json", "Application/JSON; charset=utf-8",
                        "application/xml", "image/svg+xml", "text/html",
                        "text/plain"}

\* Body absent, shorter than 50 characters, or blank, {}, [], null or an
\* acknowledgement token once trimmed.
C11_TrivialBody ==
  call.body \notin {Str(CatalogBody), Str(Repeat("a", MinMeaningfulLength))}

\* C11: isCoreDataRequest returns true for an exchange exactly when none of
\* the six exclusion conditions holds: resource kind in the exclusion set,
\* resource kind not xhr/fetch, hostname equal to or a subdomain of a listed
\* analytics domain (case-insensitive), path+query matching a tracking
\* pattern, content type not json/xml/html/text-plain, or trivial body.
C11_CoreExactlyWhenNoExclusion ==
  (call.fn = "isCoreDataRequest" /\ call.done) =>
    (call.out <=>
       /\ call.resourceType \notin {"image", "media", "font", "stylesheet",
                                    "manifest", "preflight"}
       /\ call.resourceType \in {"xhr", "fetch"}
       /\ ~C11_AnalyticsHost
       /\ ~C11_TrackingPath
       /\ C11_DataContentType
       /\ ~C11_TrivialBody)

\* An exchange on a subdomain of an analytics domain, written in capitals,
\* excluded although everything else about it passes.
C11_Witness ==
  /\ call.fn = "isCoreDataRequest" /\ call.done
  /\ call.url = "https://WWW.Google-Analytics.COM/v1/products"
  /\ call.resourceType = "xhr"
  /\ call.contentType = "application/json"
  /\ call.body = Str(CatalogBody)
  /\ ~call.out

\* An exchange that passes every check of the filter but the one on its
\* body.
C12_PassesOtherChecks ==
  /\ call.fn = "isCoreDataRequest" /\ call.done
  /\ call.url = "https://api.example.com/v1/products?page=2"
  /\ call.resourceType \in {"xhr", "fetch"}
  /\ call.contentType = "application/json"

\* C12 as stated: an exchange whose response body is "{}" is excluded as
\* trivial, and one whose body is {"id":1,"name":"Widget"} and which passes
\* every other check is not excluded.
C12_WidgetBodyIsNotTrivial ==
  C12_PassesOtherChecks =>
    /\ call.body = Str("{}") => ~call.out
    /\ call.body = Str(WidgetBody) => call.out

\* C12: an exchange whose response body is "{}" is excluded as trivial, and
\* so is one whose body is {"id":1,"name":"Widget"}, which is shorter than
\* 50 characters; a JSON body of 50 characters or more that is not blank or
\* a bare token is not excluded, if the exchange passes every other check.
C12_ShortBodiesAreTrivial ==
  C12_PassesOtherChecks =>
    /\ call.body = Str("{}") => ~call.out
    /\ call.body = Str(WidgetBody) => ~call.out
    /\ call.body = Str(CatalogBody) => call.out

C12_Witness ==
  /\ C12_PassesOtherChecks
  /\ call.body = Str(WidgetBody)
  /\ ~call.out

\* ----------------------------------------------- claims on the analysis
Analyzed == call.fn = "analyze" /\ call.done

\* An exchange that survives the filter.
Survives(xhr) ==
  /\ xhr.response.defined
  /\ isCoreDataRequest(xhr.response.url, OrEmpty(xhr.response.contentType),
                       xhr.request.resourceType, xhr.response.body)

\* An exchange whose JSON or XML does not parse.
ParseFails(xhr) == xhr.response.body \in {Str(BadJsonBody), Str(BadXmlBody)}

Detectable(xhr) == Survives(xhr) /\ ~ParseFails(xhr)

\* C13 as stated: every exchange record that survives the filter produces
\* exactly one DetectedAPI in analyze's output, in the order of the records,
\* except those whose JSON or XML parse failed; this holds for each
\* accepted content type, plain text included.
C13_EverySurvivorDetected ==
  Analyzed =>
    LET expected == SelectSeq(call.fetchResult.xhrRequests, Detectable) IN
    /\ Len(call.out.detectedAPIs) = Len(expected)
    /\ \A i \in 1..Len(expected) :
         call.out.detectedAPIs[i].url = expected[i].request.url

\* The pages to which the first embedded rule applies (the first
\* framework's data with pageProps filled), and those where it does not and
\* the second framework's data is extracted.
FirstRuleHtmls == {NextHtml}

SecondRuleHtmls == {NuxtHtml, NuxtInlineHtml, NextBrokenNuxtHtml}

NoRuleHtmls == {PlainHtml, NextEmptyHtml, NextEmptyNuxtHtml, NuxtBrokenInlineHtml}

\* C14: whenever the HTML carries the first framework's embedded data with
\* a non-empty props.pageProps, analyze returns nextjs-embedded with
\* confidence high, and otherwise whenever the second framework's embedded
\* data was extracted it returns nuxt-embedded with confidence high,
\* whatever DetectedAPIs exist.
C14_EmbeddedRulesComeFirst ==
  Analyzed =>
    /\ call.fetchResult.html \in FirstRuleHtmls =>
         /\ call.out.primaryDataSource = "nextjs-embedded"
         /\ call.out.confidence = "high"
    /\ call.fetchResult.html \in SecondRuleHtmls =>
         /\ call.out.primaryDataSource = "nuxt-embedded"
         /\ call.out.confidence = "high"

\* Embedded data wins over two GraphQL exchanges and a JSON one.
C14_Witness ==
  /\ Analyzed
  /\ call.fetchResult.html = NextBrokenNuxtHtml
  /\ call.fetchResult.xhrRequests = <<JsonExchange, GraphqlExchange, GraphqlExchange>>
  /\ Len(call.out.detectedAPIs) = 3
  /\ call.out.primaryDataSource = "nuxt-embedded"

\* C15: when no DetectedAPI exists and neither embedded rule applied,
\* analyze returns confidence medium with primary = the embedded data's
\* category if embedded data exists, else ssr-only; with zero surviving
\* exchanges and no embedded data the result is exactly (ssr-only, medium)
\* and includeHtml is true.
C15_NothingDetected ==
  (Analyzed /\ call.out.detectedAPIs = <<>>) =>
    /\ call.fetchResult.html \in {NextEmptyHtml, NextEmptyNuxtHtml} =>
         /\ call.out.primaryDataSource = "nextjs-embedded"
         /\ call.out.confidence = "medium"
    /\ call.fetchResult.html = PlainHtml =>
         /\ call.out.primaryDataSource = "ssr-only"
         /\ call.out.confidence = "medium"
         /\ call.out.analysis.includeHtml

\* Embedded data with empty pageProps, and one exchange that survives the
\* filter but is no DetectedAPI.
C15_Witness ==
  /\ Analyzed
  /\ call.fetchResult.html = NextEmptyHtml
  /\ call.fetchResult.xhrRequests = <<TextExchange>>
  /\ call.out.detectedAPIs = <<>>
  /\ call.out.primaryDataSource = "nextjs-embedded"
  /\ call.out.confidence = "medium"

\* The tally of a category among the DetectedAPIs returned.
Tally(category) ==
  Cardinality({i \in 1..Len(call.out.detectedAPIs) :
                 call.out.detectedAPIs[i].category = category})

\* C16: when neither embedded rule applied and at least one DetectedAPI has
\* category graphql, analyze returns primary = graphql whatever the tallies
\* of the other categories are, with confidence high if the graphql tally
\* is greater than 1 and medium if it is exactly 1.
C16_GraphqlComesFirst ==
  (Analyzed /\ call.fetchResult.html \in NoRuleHtmls /\ Tally("graphql") >= 1) =>
    /\ call.out.primaryDataSource = "graphql"
    /\ Tally("graphql") > 1 => call.out.confidence = "high"
    /\ Tally("graphql") = 1 => call.out.confidence = "medium"

\* One GraphQL exchange against three JSON ones.
C16_Witness ==
  /\ Analyzed
  /\ call.fetchResult.html = PlainHtml
  /\ call.fetchResult.xhrRequests =
       <<JsonExchange, JsonExchange, JsonExchange, GraphqlExchange>>
  /\ Tally("json-api") = 3
  /\ call.out.primaryDataSource = "graphql"
  /\ call.out.confidence = "medium"

\* The place of a category in the order json-api, graphql, xml-api,
\* html-api.
Rank(category) ==
  CASE category = "json-api" -> 1
    [] category = "graphql" -> 2
    [] category = "xml-api" -> 3
    [] category = "html-api" -> 4
    [] OTHER -> 5

\* C17: when neither embedded rule applied, at least one DetectedAPI exists
\* and none is graphql, analyze returns as primary the category with the
\* highest tally, a tie going to the category that comes first in the order
\* json-api, graphql, xml-api, html-api, with confidence high if that tally
\* is >= 3 and medium if it is 1 or 2; three JSON exchanges and one XML
\* exchange give json-api, high.
C17_HighestTallyWins ==
  (/\ Analyzed
   /\ call.fetchResult.html \in NoRuleHtmls
   /\ call.out.detectedAPIs # <<>>
   /\ Tally("graphql") = 0) =>
    LET primary == call.out.primaryDataSource
        others == {"json-api", "graphql", "xml-api", "html-api"} \ {primary}
    IN /\ Rank(primary) <= 4
       /\ \A c \in others : Tally(c) <= Tally(primary)
       /\ \A c \in others : Tally(c) = Tally(primary) => Rank(primary) < Rank(c)
       /\ Tally(primary) >= 3 => call.out.confidence = "high"
       /\ Tally(primary) \in {1, 2} => call.out.confidence = "medium"
       /\ call.fetchResult.xhrRequests =
            <<JsonExchange, JsonExchange, JsonExchange, XmlExchange>> =>
            primary = "json-api" /\ call.out.confidence = "high"

\* A tie of one XML and one HTML exchange, taken the other way round.
C17_Witness ==
  /\ Analyzed
  /\ call.fetchResult.html = PlainHtml
  /\ call.fetchResult.xhrRequests = <<HtmlExchange, XmlExchange>>
  /\ Tally("xml-api") = 1 /\ Tally("html-api") = 1
  /\ call.out.primaryDataSource = "xml-api"
  /\ call.out.confidence = "medium"

\* C18: in every analysis result delivered to the caller, the HTML and the
\* title are present only when the resolved primary data source is
\* ssr-only; for every other primary source both are absent.
C18_HtmlAndTitleOnlyForSsr ==
  (Analyzed /\ call.out.primaryDataSource # "ssr-only") =>
    /\ ~call.out.html.defined
    /\ ~call.out.title.defined

\* The category of the first of the three patterns that matches html and
\* whose content parses, "" when none does.
FirstSuccess ==
  (PlainHtml :> "")
  @@ (NextHtml :> "nextjs-embedded")
  @@ (NextEmptyHtml :> "nextjs-embedded")
  @@ (NuxtHtml :> "nuxt-embedded")
  @@ (NuxtInlineHtml :> "nuxt-embedded")
  @@ (NextEmptyNuxtHtml :> "nextjs-embedded")
  @@ (NextBrokenNuxtHtml :> "nuxt-embedded")
  @@ (NuxtBrokenInlineHtml :> "nuxt-embedded")

\* C23 as stated: embedded-data extraction tries the three patterns in
\* order (first framework's script tag, second framework's script tag,
\* second framework's inline assignment) and returns the result of the
\* first that succeeds; a pattern that matches but whose content fails to
\* parse does not stop the later ones from being tried, and embedded data
\* is absent only if all three fail.
C23_FirstSuccessWins ==
  Analyzed =>
    LET expected == FirstSuccess[call.fetchResult.html] IN
    /\ call.out.embeddedData.defined = (expected # "")
    /\ call.out.embeddedData.defined => call.out.embeddedData.category = expected

\* C26: for every html and every list of exchange records, analyze returns
\* confidence high or medium, never low: every DetectedAPI is tallied under
\* one of the four categories, so whenever the tally rule ranks the
\* categories (at least one DetectedAPI, none graphql) the greatest tally
\* is at least 1.
C26_NeverLow ==
  Analyzed =>
    /\ call.out.confidence \in {"high", "medium"}
    /\ \A i \in 1..Len(call.out.detectedAPIs) :
         Rank(call.out.detectedAPIs[i].category) <= 4
    /\ (Len(call.out.detectedAPIs) > 0 /\ ~call.out.embeddedData.defined) =>
         Tally(call.out.primaryDataSource) >= 1

\* The tally rule ranks the categories of a single DetectedAPI: the case
\* nearest to the low branch.
C26_Witness ==
  /\ Analyzed
  /\ ~call.out.embeddedData.defined
  /\ Len(call.out.detectedAPIs) = 1
  /\ Tally("graphql") = 0
  /\ Tally(call.out.primaryDataSource) = 1
  /\ call.out.confidence = "medium"

\* ------------------------------------------------ claims on the schemas
\* The set of branch types of a schema: its single type, or the types of
\* its oneOf branches.
BranchTypes(s) ==
  IF s.oneOf # <<>> THEN {s.oneOf[i].type : i \in 1..Len(s.oneOf)} ELSE {s.type}

\* No type appears on two branches.
EachTypeOnce(s) ==
  \A i, j \in 1..Len(s.oneOf) : s.oneOf[i].type = s.oneOf[j].type => i = j

PresentsKey(req) ==
  \/ req.authorization = "Bearer " \o apiKey
  \/ req.xApiKey = apiKey

Received(v) == inbound[v] # NoInbound

\* The request got past the middleware to a route handler.
ReachedHandler(v) == http[v].status \in {"pending", "200", "400", "500"}

\* C20: when API_KEY is configured, no request to a path other than /health
\* reaches a route handler, and so none starts a visit, unless it presents
\* the configured key as a Bearer token or in the x-api-key header, and
\* every other such request is answered 401; when API_KEY is not configured
\* every request is passed through, and /health is passed through in both
\* cases.
C20_KeyGuardsEveryRoute ==
  \A v \in Visits :
    Received(v) =>
      /\ (apiKey # NoApiKey /\ inbound[v].path # "/health") =>
           /\ ReachedHandler(v) => PresentsKey(inbound[v])
           /\ ~PresentsKey(inbound[v]) =>
                http[v].status = "401" /\ visit[v].pc = "idle"
      /\ apiKey = NoApiKey => http[v].status # "401"
      /\ inbound[v].path = "/health" => http[v].status = "200"
      /\ visit[v].pc # "idle" => inbound[v].path = "/fetch"

\* With a key configured: a request with a wrong Bearer token was answered
\* 401 and started nothing.
C20_Witness ==
  /\ apiKey = Secret
  /\ inbound[FirstVisit] = Inbound("/fetch", "Bearer wrong", "")
  /\ http[FirstVisit].status = "401"
  /\ visit[FirstVisit].pc = "idle"

====
